---- MODULE Spec2Model ----
(***************************************************************************)
(* Memory lifecycle subsystem of memory-assistant-v3: the record store     *)
(* (app/database.py), the organization pipeline (app/memory_organizer.py), *)
(* the extraction pipeline (app/memory_extractor.py) and the chat turn     *)
(* that starts it (app/main.py).                                           *)
(*                                                                         *)
(* Text is a sequence of characters.  A table is the sequence of its rows  *)
(* in "ORDER BY updated_at DESC" order: the most recently written row is   *)
(* first.  A backend reply is any text (or JSON value) the generation      *)
(* service may send back; a connectivity failure of OllamaClient.generate  *)
(* is the error text that method returns.                                  *)
(***************************************************************************)
EXTENDS Integers, Sequences, FiniteSets, TLC

VARIABLES
    db,                         \* the four tables
    nextId,                     \* AUTOINCREMENT counter of each table
    now,                        \* the current day
    pc, stage, rows, left, cur, processed, idx, cnt, results, log,
                                \* MemoryOrganizer.organize_all and its locals
    callback, seen,             \* progress_callback is set; the events the
                                \* observer received in this run
    parked,                     \* the locals of a second request thread that
                                \* is not scheduled
    call, ioLog, executed, raised, reported,
                                \* observation of the run (not program state)
    ret, addedId, calls,        \* the last store call of a client, the id the
                                \* last add_attribute of each name returned,
                                \* the number of calls made
    session,                    \* Flask session: history, last_input_time
    tasks,                      \* the extract_and_save threads
    processing,                 \* is_memory_processing
    gen                         \* a call of generate_structured

storeVars == <<db, nextId>>
orgVars == <<pc, stage, rows, left, cur, processed, idx, cnt, results, log,
             callback, seen, parked>>
obsVars == <<call, ioLog, executed, raised, reported>>
clientVars == <<ret, addedId, calls, session, tasks, processing, gen>>
vars == <<db, nextId, now,
          pc, stage, rows, left, cur, processed, idx, cnt, results, log,
          callback, seen, parked,
          call, ioLog, executed, raised, reported,
          ret, addedId, calls, session, tasks, processing, gen>>

----------------------------------------------------------------------------
(* Bounds of the model *)

\* rows of an initial store, all tables together
MaxRows == 2
\* elements of a detection reply
MaxPairs == 2

----------------------------------------------------------------------------
(* Program constants *)

MAX_ITEMS_PER_STEP == 20
ThresholdMedium == 30
ThresholdOld == 90
ThresholdAncient == 365
\* GoalItem.priority: ge=1, le=10
PriorityMin == 1
PriorityMax == 10

----------------------------------------------------------------------------
(* Text *)

Space == " "
Colon == ":"

\* str.strip(): leading and trailing whitespace removed
RECURSIVE LStrip(_)
LStrip(t) == IF t # <<>> /\ Head(t) = Space THEN LStrip(Tail(t)) ELSE t

RECURSIVE RStrip(_)
RStrip(t) ==
    IF t # <<>> /\ t[Len(t)] = Space THEN RStrip(SubSeq(t, 1, Len(t) - 1)) ELSE t

Strip(t) == RStrip(LStrip(t))

HasColon(t) == \E i \in 1..Len(t) : t[i] = Colon

FirstColon(t) == CHOOSE i \in 1..Len(t) : t[i] = Colon /\ \A j \in 1..(i - 1) : t[j] # Colon

\* formatted.split(':', 1)[1]
AfterColon(t) == SubSeq(t, FirstColon(t) + 1, Len(t))

\* the text OllamaClient.generate returns when the request fails
ErrorText == <<"E", ":", " ", "E">>

\* texts the backend may answer to a merge, format or compress prompt
TextReplies == { <<" ">>, <<"a">>, <<" ", "a", "b">>, <<"n", ":", "b">> }

----------------------------------------------------------------------------
(* The record store: app/database.py *)

\* UPDATE ... SET field = value, updated_at = CURRENT_TIMESTAMP on the rows
\* with an id in ids: they come first in "ORDER BY updated_at DESC"
Rewrite(t, ids, field, value) ==
    LET hit == SelectSeq(t, LAMBDA r : r.id \in ids)
        rest == SelectSeq(t, LAMBDA r : r.id \notin ids)
    IN  [i \in 1..Len(hit) |-> [hit[i] EXCEPT ![field] = value]] \o rest

HasId(t, id) == \E i \in 1..Len(t) : t[i].id = id

RowOf(t, id) == t[CHOOSE i \in 1..Len(t) : t[i].id = id]

\* a lookup that finds no row
NoExistingAttribute(t, name) == 0

\* SELECT id FROM user_attributes WHERE attribute_name = ? ; fetchone()
ExistingAttribute(t, name) ==
    LET ids == {t[i].id : i \in {j \in 1..Len(t) : t[j].name = name}}
    IN  IF ids = {} THEN 0 ELSE CHOOSE i \in ids : \A j \in ids : i <= j

\* an add that inserts a row whatever the table holds
add_attribute_insert(t, next, name, value) ==
    [tab |-> <<[id |-> next, name |-> name, value |-> value,
                level |-> 0]>> \o t,
     next |-> next + 1, id |-> next]

\* add_attribute: the table, the counter and the returned id
add_attribute(t, next, name, value) ==
    LET existing == ExistingAttribute(t, name)
    IN  IF existing # 0
        THEN [tab |-> Rewrite(t, {t[i].id : i \in {j \in 1..Len(t) :
                                                        t[j].name = name}},
                              "value", value),
              next |-> next, id |-> existing]
        ELSE [tab |-> <<[id |-> next, name |-> name, value |-> value,
                         level |-> 0]>> \o t,
              next |-> next + 1, id |-> next]

update_attribute(t, id, value) ==
    Rewrite(t, {id}, "value", value)

delete_attribute(t, id) == SelectSeq(t, LAMBDA r : r.id # id)

add_memory(t, next, content, day) ==
    [tab |-> <<[id |-> next, content |-> content, active |-> TRUE,
                level |-> 0, created |-> day, access |-> 0]>> \o t,
     next |-> next + 1, id |-> next]

update_memory(t, id, content) ==
    Rewrite(t, {id}, "content", content)

\* delete_memory(id, hard_delete=False)
delete_memory(t, id) ==
    Rewrite(t, {id}, "active", FALSE)

\* increment_memory_access(id): access_count = access_count + 1
\* (updated_at is not written: the order of the rows stays)
increment_memory_access(t, id) ==
    [i \in 1..Len(t) |-> IF t[i].id = id
                          THEN [t[i] EXCEPT !.access = @ + 1] ELSE t[i]]

\* update_compression_level(table, id, level) on the rows of the table
update_compression_level(t, id, level) ==
    Rewrite(t, {id}, "level", level)

add_goal(t, next, content, priority) ==
    [tab |-> <<[id |-> next, content |-> content, status |-> "active",
                priority |-> priority, level |-> 0]>> \o t,
     next |-> next + 1, id |-> next]

\* update_goal(id, priority=priority)
update_goal_priority(t, id, priority) ==
    Rewrite(t, {id}, "priority", priority)

\* update_goal(id, goal_content=content)
update_goal_content(t, id, content) ==
    Rewrite(t, {id}, "content", content)

\* update_goal(id, goal_status=status)
update_goal_status(t, id, status) ==
    Rewrite(t, {id}, "status", status)

add_request(t, next, content) ==
    [tab |-> <<[id |-> next, content |-> content, active |-> TRUE]>> \o t,
     next |-> next + 1, id |-> next]

update_request(t, id, content) ==
    Rewrite(t, {id}, "content", content)

delete_request(t, id) == SelectSeq(t, LAMBDA r : r.id # id)

get_all_attributes(d) == d.attrs

\* a read of the memories without the is_active filter
get_all_memories_any(d) == d.mems

\* get_all_memories(active_only=True)
get_all_memories(d) == SelectSeq(d.mems, LAMBDA r : r.active)

\* ORDER BY priority ASC, updated_at DESC
RECURSIVE ByPriority(_, _)
ByPriority(t, p) ==
    IF p > PriorityMax + 1 THEN <<>>
    ELSE SelectSeq(t, LAMBDA r : r.priority = p) \o ByPriority(t, p + 1)

\* a read of the goals without the status filter
get_all_goals_any(d) == ByPriority(d.goals, PriorityMin - 1)

\* get_all_goals(status_filter='active')
get_all_goals(d) ==
    ByPriority(SelectSeq(d.goals, LAMBDA r : r.status = "active"), PriorityMin - 1)

\* get_all_requests(active_only=True)
get_all_requests(d) == SelectSeq(d.reqs, LAMBDA r : r.active)

----------------------------------------------------------------------------
(* The generation backend: OllamaClient.generate *)

\* what one request can come to: an answer, or no answer (connection
\* refused, timeout, HTTP error)
TextCalls ==
    {[failed |-> FALSE, content |-> t] : t \in TextReplies}
        \cup {[failed |-> TRUE, content |-> <<>>]}

\* generate never raises: a failed request returns the error text
generate(c) == IF c.failed THEN ErrorText ELSE c.content

\* One element of a JSON list: an object with the keys it carries (0: the key
\* is missing, null or names no row), or a value that is no object
NotAnObject == [dict |-> FALSE, id1 |-> 0, id2 |-> 0, newer |-> 0]

\* an object whose ids name no row (keys missing, null, or unknown ids)
NoSuchIds == [dict |-> TRUE, id1 |-> 0, id2 |-> 0, newer |-> 0]

\* the ids of the rows rs
IdsOf(rs) == {rs[i].id : i \in 1..Len(rs)}

\* {"id1", "id2", "reason"}: the elements a reply about the rows rs can hold
DuplicateElements(rs) ==
    {NotAnObject, NoSuchIds} \cup
    {[dict |-> TRUE, id1 |-> a, id2 |-> b, newer |-> 0] : a, b \in IdsOf(rs)}

\* {"id1", "id2", "newer_id", "reason"}
ConflictElements(rs) ==
    {NotAnObject, NoSuchIds} \cup
    UNION {{[dict |-> TRUE, id1 |-> a, id2 |-> b, newer |-> c] : c \in {0, a, b}}
           : <<a, b>> \in IdsOf(rs) \X IdsOf(rs)}

\* Answers to a detection prompt: text that is no JSON, a JSON value that is
\* no list, a JSON list of n elements.  The elements of a list are chosen
\* when the loop over the list reads them: the loop reads each element once,
\* in order, and nothing else reads the list.
JsonReplies ==
    {[kind |-> "text", n |-> 0], [kind |-> "nonlist", n |-> 0]}
        \cup {[kind |-> "list", n |-> n] : n \in 0..MaxPairs}

DetectCalls ==
    {[failed |-> FALSE, content |-> j] : j \in JsonReplies}
        \cup {[failed |-> TRUE, content |-> [kind |-> "text", n |-> 0]]}

\* the error text is text that is no JSON
generate_json(c) == IF c.failed THEN [kind |-> "text", n |-> 0] ELSE c.content

\* the number of pairs in the reply to a detection prompt
ReportedCount(c) ==
    IF generate_json(c).kind = "list" THEN generate_json(c).n ELSE 0

----------------------------------------------------------------------------
(* The organization pipeline: app/memory_organizer.py *)

ATTRIBUTE == 1
EPISODE == 2
GOAL == 3
REQUEST == 4

StepName(k) ==
    CASE k = 1 -> "attribute" [] k = 2 -> "episode"
      [] k = 3 -> "goal" [] k = 4 -> "request" [] OTHER -> "overall"

\* a stage sequence that runs the goal stage before the episode stage
NextStageGoalFirst(k) ==
    CASE k = 1 -> 3
      [] k = 3 -> 2
      [] k = 2 -> 4
      [] OTHER -> 5

\* the order organize_all runs the stages in
NextStage(k) == k + 1

Event(step, status) == [step |-> step, status |-> status]

\* _notify_progress appends to organization_log
Notify(l, step, status) == Append(l, Event(step, status))

\* an observer that is called before the event is appended
DeliverBeforeAppend(cb, s, l, l2) ==
    IF cb
    THEN s \o [i \in 1..(Len(l2) - Len(l)) |->
                 [ev |-> l2[Len(l) + i], at |-> Len(l) + i - 1]]
    ELSE s

\* "if self.progress_callback: self.progress_callback(progress_info)": the
\* events that an action appended to the log l, giving l2, are handed to the
\* observer one by one, each right after its append; "at" is the length of
\* the log at the time of the call
Deliver(cb, s, l, l2) ==
    IF cb
    THEN s \o [i \in 1..(Len(l2) - Len(l)) |->
                 [ev |-> l2[Len(l) + i], at |-> Len(l) + i]]
    ELSE s

\* the observer's side of the _notify_progress calls of an action
NotifyObserver ==
    /\ callback' = callback
    /\ seen' = Deliver(callback, seen, log, log')
    /\ parked' = parked

ZeroCount == [merged |-> 0, formatted |-> 0, resolved |-> 0, compressed |-> 0]

\* the rows a stage works on
ReadRows(d, k) ==
    CASE k = 1 -> get_all_attributes(d)
      [] k = 2 -> get_all_memories(d)
      [] k = 3 -> get_all_goals(d)
      [] k = 4 -> get_all_requests(d)

Content(k, r) == IF k = 1 THEN r.value ELSE r.content

\* a content update that is not committed
SetContentLost(d, k, id, text) == d

\* the store after the stage's content update of row id
SetContent(d, k, id, text) ==
    CASE k = 1 -> [d EXCEPT !.attrs = update_attribute(@, id, text)]
      [] k = 2 -> [d EXCEPT !.mems = update_memory(@, id, text)]
      [] k = 3 -> [d EXCEPT !.goals = update_goal_content(@, id, text)]
      [] k = 4 -> [d EXCEPT !.reqs = update_request(@, id, text)]

\* a parser that takes text that is no JSON for a list of one element
parse_json_response_guess(response) ==
    IF response.kind = "text" THEN [kind |-> "list", n |-> 1] ELSE response

\* _parse_json_response: json.loads, and [] on a JSONDecodeError
parse_json_response(response) ==
    IF response.kind = "text" THEN [kind |-> "list", n |-> 0] ELSE response

\* a membership test that looks at the first id of the pair only
ConsumedFirstOnly(done, e) == e.id1 \in done

\* "id1 in processed_ids or id2 in processed_ids"
Consumed(done, e) == e.id1 \in done \/ e.id2 \in done

\* next((x for x in items if x['id'] == id), None) is a row, for both ids
BothFound(rs, e) == HasId(rs, e.id1) /\ HasId(rs, e.id2)

\* a choice of the older side that takes the side named by newer_id
OlderIdIsNewer(e) == IF e.newer = e.id2 THEN e.id2 ELSE e.id1

\* older_id = id1 if newer_id == id2 else id2
OlderId(e) == IF e.newer = e.id2 THEN e.id1 ELSE e.id2

\* one backend call or store write of stage k, in the order they happen
Io(l, k) == IF l # <<>> /\ l[Len(l)] = k THEN l ELSE Append(l, k)

NoCall == [made |-> FALSE, failed |-> FALSE, reply |-> <<>>]
Called(c) == [made |-> TRUE, failed |-> c.failed, reply |-> <<>>]
\* a text call and the text that generate returned for it
CalledText(c) == [made |-> TRUE, failed |-> c.failed, reply |-> generate(c)]
NotRaised == [stage |-> 0, cause |-> "none"]

\* the chain with its tests in the opposite order: the lowest level first
TargetLevelLowestFirst(days, level) ==
    IF days >= ThresholdMedium /\ level < 1 THEN 1
    ELSE IF days >= ThresholdOld /\ level < 2 THEN 2
    ELSE IF days >= ThresholdAncient /\ level < 3 THEN 3
    ELSE 0

\* "elif" chain of _compress_old_episodes; 0 stands for "continue"
TargetLevel(days, level) ==
    IF days >= ThresholdAncient /\ level < 3 THEN 3
    ELSE IF days >= ThresholdOld /\ level < 2 THEN 2
    ELSE IF days >= ThresholdMedium /\ level < 1 THEN 1
    ELSE 0

\* an acceptance test without the length comparison
CompressAcceptedAnyLength(compressed, original) == compressed # <<>>

\* "if compressed and len(compressed) < len(ep['memory_content'])"
CompressAccepted(compressed, original) ==
    compressed # <<>> /\ Len(compressed) < Len(original)

\* an acceptance test without the comparison with the content
FormatAcceptedNonEmpty(formatted, original) == formatted # <<>>

\* "if formatted and formatted != episode['memory_content']"
FormatAccepted(formatted, original) ==
    formatted # <<>> /\ formatted # original

\* _format_attribute: the part after the first ':' of "name: value"
AttributeValue(formatted) ==
    IF HasColon(formatted) THEN Strip(AfterColon(formatted)) ELSE formatted

Min(a, b) == IF a <= b THEN a ELSE b

\* POST /organize: clear_logs(), then organize_all() up to its first stage
OrgStart ==
    /\ pc = "idle"
    /\ UNCHANGED clientVars
    /\ log' = Notify(<<>>, "overall", "started")
    /\ results' = [stages |-> [k \in 1..4 |-> ZeroCount], error |-> "none"]
    /\ stage' = ATTRIBUTE
    /\ pc' = "begin"
    /\ rows' = <<>> /\ left' = 0 /\ cur' = NoSuchIds /\ processed' = {} /\ idx' = 1
    /\ cnt' = ZeroCount
    /\ call' = NoCall /\ ioLog' = <<>> /\ executed' = <<>> /\ raised' = NotRaised
    /\ UNCHANGED <<db, nextId, now>>
    /\ reported' = 0
    /\ callback' = callback /\ parked' = parked
    \* the observer's sequence is kept for one run
    /\ seen' = Deliver(callback, <<>>, <<>>, log')

\* a stage whose empty category ends the run after the 'skipped' event
StageBeginSkipEnds ==
    /\ pc = "begin"
    /\ UNCHANGED clientVars
    /\ cnt' = ZeroCount /\ processed' = {} /\ left' = 0 /\ cur' = NoSuchIds
    /\ idx' = 1
    /\ executed' = <<>> /\ call' = NoCall
    /\ \/ /\ log' = Notify(log, StepName(stage), "started")
          /\ raised' = [stage |-> stage, cause |-> "StoreError"]
          /\ pc' = "error"
          /\ rows' = <<>>
       \/ /\ ReadRows(db, stage) = <<>>
          /\ log' = Notify(Notify(log, StepName(stage), "started"),
                           StepName(stage), "skipped")
          /\ pc' = "done"
          /\ rows' = <<>>
          /\ UNCHANGED raised
       \/ /\ ReadRows(db, stage) # <<>>
          /\ rows' = ReadRows(db, stage)
          /\ log' = Notify(Notify(log, StepName(stage), "started"),
                           StepName(stage), "processing")
          /\ pc' = IF Len(rows') >= 2 THEN "detect" ELSE "refetch"
          /\ UNCHANGED raised
    /\ UNCHANGED <<db, nextId, now, stage, results, ioLog>>
    /\ reported' = 0
    /\ NotifyObserver

\* the stage's 'started' event and _organize_<category> up to the detection
StageBegin ==
    /\ pc = "begin"
    /\ UNCHANGED clientVars
    /\ cnt' = ZeroCount /\ processed' = {} /\ left' = 0 /\ cur' = NoSuchIds
    /\ idx' = 1
    /\ executed' = <<>> /\ call' = NoCall
    /\ \/ \* the store read raises (sqlite3.Error)
          /\ log' = Notify(log, StepName(stage), "started")
          /\ raised' = [stage |-> stage, cause |-> "StoreError"]
          /\ pc' = "error"
          /\ rows' = <<>>
       \/ /\ ReadRows(db, stage) = <<>>
          /\ log' = Notify(Notify(log, StepName(stage), "started"),
                           StepName(stage), "skipped")
          /\ pc' = "end"
          /\ rows' = <<>>
          /\ UNCHANGED raised
       \/ /\ ReadRows(db, stage) # <<>>
          /\ rows' = ReadRows(db, stage)
          /\ log' = Notify(Notify(log, StepName(stage), "started"),
                           StepName(stage), "processing")
          /\ pc' = IF Len(rows') >= 2 THEN "detect" ELSE "refetch"
          /\ UNCHANGED raised
    /\ UNCHANGED <<db, nextId, now, stage, results, ioLog>>
    /\ reported' = 0
    /\ NotifyObserver

\* _detect_conflicts (attributes, goals)
DetectConflicts ==
    /\ pc = "detect"
    /\ UNCHANGED clientVars
    /\ stage \in {ATTRIBUTE, GOAL}
    /\ \E c \in DetectCalls :
          LET conflicts == parse_json_response(generate_json(c))
          IN  \* "return conflicts if isinstance(conflicts, list) else []"
              /\ left' = IF conflicts.kind = "list" THEN conflicts.n ELSE 0
              /\ call' = Called(c)
              /\ reported' = ReportedCount(c)
    /\ pc' = "resolve"
    /\ ioLog' = Io(ioLog, stage)
    /\ UNCHANGED <<db, nextId, now, stage, rows, cur, processed, idx, cnt,
                   results, log, executed, raised>>
    /\ NotifyObserver

\* the store after conflict resolution removed row id
RemoveOlder(d, k, id) ==
    IF k = ATTRIBUTE
    THEN [d EXCEPT !.attrs = delete_attribute(@, id)]
    ELSE [d EXCEPT !.goals = update_goal_status(@, id, "cancelled")]

\* one iteration of the loop of _resolve_attribute_conflicts /
\* _resolve_goal_conflicts
ResolveConflict ==
    /\ pc = "resolve"
    /\ UNCHANGED clientVars
    /\ \/ /\ left = 0
          /\ pc' = "refetch"
          /\ cur' = NoSuchIds
          /\ UNCHANGED <<db, left, processed, cnt, log, ioLog, executed, raised>>
       \/ /\ left > 0
          /\ left' = left - 1
          /\ \E e \in ConflictElements(rows) :
                /\ cur' = e
                /\ \/ \* conflict.get on a value that is no dict: AttributeError
                      /\ ~e.dict
                      /\ raised' = [stage |-> stage, cause |-> "AttributeError"]
                      /\ pc' = "error"
                      /\ UNCHANGED <<db, processed, cnt, log, ioLog, executed>>
                   \/ /\ e.dict
                      /\ Consumed(processed, e) \/ ~BothFound(rows, e)
                      /\ pc' = "resolve"
                      /\ UNCHANGED <<db, processed, cnt, log, ioLog, executed,
                                     raised>>
                   \/ /\ e.dict
                      /\ ~Consumed(processed, e)
                      /\ BothFound(rows, e)
                      /\ log' = Notify(log, StepName(stage), "processing")
                      /\ db' = RemoveOlder(db, stage, OlderId(e))
                      /\ processed' = processed \cup {e.id1, e.id2}
                      /\ cnt' = [cnt EXCEPT !.resolved = @ + 1]
                      /\ executed' = Append(executed, <<e.id1, e.id2>>)
                      /\ ioLog' = Io(ioLog, stage)
                      /\ pc' = "resolve"
                      /\ UNCHANGED raised
    /\ call' = NoCall
    /\ UNCHANGED <<nextId, now, stage, rows, idx, results>>
    /\ UNCHANGED reported
    /\ NotifyObserver

\* the duplicate detection of _merge_duplicate_episodes /
\* _merge_duplicate_requests
DetectDuplicates ==
    /\ pc = "detect"
    /\ UNCHANGED clientVars
    /\ stage \in {EPISODE, REQUEST}
    /\ \E c \in DetectCalls :
          LET duplicates == parse_json_response(generate_json(c))
          IN  /\ left' = IF duplicates.kind = "list" THEN duplicates.n ELSE 0
              \* "if not isinstance(duplicates, list): return 0"
              /\ pc' = IF duplicates.kind = "list" THEN "merge" ELSE "refetch"
              /\ call' = Called(c)
              /\ reported' = ReportedCount(c)
    /\ ioLog' = Io(ioLog, stage)
    /\ UNCHANGED <<db, nextId, now, stage, rows, cur, processed, idx, cnt,
                   results, log, executed, raised>>
    /\ NotifyObserver

\* one iteration of the merge loop, up to the update of the survivor
MergeStep ==
    /\ pc = "merge"
    /\ UNCHANGED clientVars
    /\ \/ /\ left = 0
          /\ pc' = "refetch"
          /\ cur' = NoSuchIds
          /\ call' = NoCall
          /\ UNCHANGED <<db, left, cnt, log, ioLog>>
       \/ /\ left > 0
          /\ left' = left - 1
          /\ \E e \in DuplicateElements(rows) :
                /\ cur' = e
                /\ \/ \* dup.get on a value that is no dict:
                      \* "except Exception: return 0"
                      /\ ~e.dict
                      /\ cnt' = [cnt EXCEPT !.merged = 0]
                      /\ pc' = "refetch"
                      /\ call' = NoCall
                      /\ UNCHANGED <<db, log, ioLog>>
                   \/ /\ e.dict
                      /\ Consumed(processed, e) \/ ~BothFound(rows, e)
                      /\ pc' = "merge"
                      /\ call' = NoCall
                      /\ UNCHANGED <<db, cnt, log, ioLog>>
                   \/ /\ e.dict
                      /\ ~Consumed(processed, e)
                      /\ BothFound(rows, e)
                      /\ log' = Notify(log, StepName(stage), "processing")
                      /\ \E c \in TextCalls :
                            /\ db' = SetContent(db, stage, e.id1,
                                                Strip(generate(c)))
                            /\ call' = CalledText(c)
                      /\ ioLog' = Io(ioLog, stage)
                      /\ pc' = "mergedel"
                      /\ UNCHANGED cnt
    /\ UNCHANGED <<nextId, now, stage, rows, processed, idx, results,
                   executed, raised>>
    /\ UNCHANGED reported
    /\ NotifyObserver

\* a removal that clears the active flag in both categories
RemoveDuplicateSoft(d, k, id) ==
    IF k = EPISODE
    THEN [d EXCEPT !.mems = delete_memory(@, id)]
    ELSE [d EXCEPT !.reqs = Rewrite(@, {id}, "active", FALSE)]

\* the store after a merge removed row id
RemoveDuplicate(d, k, id) ==
    IF k = EPISODE
    THEN [d EXCEPT !.mems = delete_memory(@, id)]
    ELSE [d EXCEPT !.reqs = delete_request(@, id)]

\* the rest of the iteration: the removal of the second record
MergeDelete ==
    /\ pc = "mergedel"
    /\ UNCHANGED clientVars
    /\ db' = RemoveDuplicate(db, stage, cur.id2)
    /\ processed' = processed \cup {cur.id1, cur.id2}
    /\ cnt' = [cnt EXCEPT !.merged = @ + 1]
    /\ executed' = Append(executed, <<cur.id1, cur.id2>>)
    /\ ioLog' = Io(ioLog, stage)
    /\ pc' = "merge"
    /\ call' = NoCall
    /\ UNCHANGED <<nextId, now, stage, rows, left, cur, idx, results, log,
                   raised>>
    /\ UNCHANGED reported
    /\ NotifyObserver

\* a formatting loop that goes on with the rows read at the start of the stage
RefetchStale ==
    /\ pc = "refetch"
    /\ UNCHANGED clientVars
    /\ rows' = rows
    /\ idx' = 1
    /\ pc' = "format"
    /\ cur' = NoSuchIds
    /\ call' = NoCall
    /\ UNCHANGED <<db, nextId, now, stage, left, processed, cnt, results, log,
                   ioLog, executed, raised>>
    /\ reported' = 0
    /\ NotifyObserver

\* the re-read before the formatting loop
Refetch ==
    /\ pc = "refetch"
    /\ UNCHANGED clientVars
    /\ rows' = ReadRows(db, stage)
    /\ idx' = 1
    /\ pc' = "format"
    /\ cur' = NoSuchIds
    /\ call' = NoCall
    /\ UNCHANGED <<db, nextId, now, stage, left, processed, cnt, results, log,
                   ioLog, executed, raised>>
    /\ reported' = 0
    /\ NotifyObserver

\* "items[:self.MAX_ITEMS_PER_STEP]": the rows the formatting loop walks
Capped(rs) == SubSeq(rs, 1, Min(Len(rs), MAX_ITEMS_PER_STEP))

\* the text _format_<category> compares and writes
Formatted(k, c) ==
    IF k = ATTRIBUTE THEN AttributeValue(Strip(generate(c))) ELSE Strip(generate(c))

\* one iteration of the formatting loop: _format_attribute, _format_episode,
\* _format_goal, _format_request
FormatStep ==
    /\ pc = "format"
    /\ UNCHANGED clientVars
    /\ \/ /\ idx > Len(Capped(rows))
          /\ pc' = IF stage = EPISODE THEN "compress_read" ELSE "end"
          /\ call' = NoCall
          /\ UNCHANGED <<db, idx, cnt, log, ioLog>>
       \/ /\ idx <= Len(Capped(rows))
          /\ log' = Notify(log, StepName(stage), "processing")
          /\ \E c \in TextCalls :
                /\ call' = CalledText(c)
                /\ IF FormatAccepted(Formatted(stage, c),
                                     Content(stage, Capped(rows)[idx]))
                   THEN /\ db' = SetContent(db, stage, Capped(rows)[idx].id,
                                            Formatted(stage, c))
                        /\ cnt' = [cnt EXCEPT !.formatted = @ + 1]
                   ELSE UNCHANGED <<db, cnt>>
          /\ ioLog' = Io(ioLog, stage)
          /\ idx' = idx + 1
          /\ pc' = "format"
    /\ UNCHANGED <<nextId, now, stage, rows, left, cur, processed, results, 
                   executed, raised>>
    /\ UNCHANGED reported
    /\ NotifyObserver

\* _compress_old_episodes: its read of the active episodes
CompressRead ==
    /\ pc = "compress_read"
    /\ UNCHANGED clientVars
    /\ rows' = get_all_memories(db)
    /\ idx' = 1
    /\ pc' = "compress"
    /\ call' = NoCall
    /\ UNCHANGED <<db, nextId, now, stage, left, cur, processed, cnt, results, log,
                   ioLog, executed, raised>>
    /\ UNCHANGED reported
    /\ NotifyObserver

\* _compress_old_episodes: one iteration of its loop
CompressStep ==
    /\ pc = "compress"
    /\ UNCHANGED clientVars
    /\ \/ /\ idx > Len(rows)
          /\ pc' = "end"
          /\ call' = NoCall
          /\ UNCHANGED <<db, idx, cnt, log, ioLog>>
       \/ /\ idx <= Len(rows)
          /\ TargetLevel(now - rows[idx].created, rows[idx].level) = 0
          /\ idx' = idx + 1
          /\ pc' = "compress"
          /\ call' = NoCall
          /\ UNCHANGED <<db, cnt, log, ioLog>>
       \/ /\ idx <= Len(rows)
          /\ TargetLevel(now - rows[idx].created, rows[idx].level) # 0
          /\ log' = Notify(log, "episode", "processing")
          /\ \E c \in TextCalls :
                /\ call' = CalledText(c)
                /\ IF CompressAccepted(Strip(generate(c)), rows[idx].content)
                   THEN /\ db' = [db EXCEPT !.mems =
                                    update_compression_level(
                                        update_memory(@, rows[idx].id,
                                                      Strip(generate(c))),
                                        rows[idx].id,
                                        TargetLevel(now - rows[idx].created,
                                                    rows[idx].level))]
                        /\ cnt' = [cnt EXCEPT !.compressed = @ + 1]
                   ELSE UNCHANGED <<db, cnt>>
          /\ ioLog' = Io(ioLog, EPISODE)
          /\ idx' = idx + 1
          /\ pc' = "compress"
    /\ UNCHANGED <<nextId, now, stage, rows, left, cur, processed, results, 
                   executed, raised>>
    /\ UNCHANGED reported
    /\ NotifyObserver

\* the stage returned: its result, its 'completed' event, and the next stage
\* or the end of the run
StageEnd ==
    /\ pc = "end"
    /\ UNCHANGED clientVars
    /\ results' = [results EXCEPT !.stages[stage] = cnt]
    /\ IF NextStage(stage) \in 1..4
       THEN /\ log' = Notify(log, StepName(stage), "completed")
            /\ stage' = NextStage(stage)
            /\ pc' = "begin"
       ELSE /\ log' = Notify(Notify(log, StepName(stage), "completed"),
                             "overall", "completed")
            /\ stage' = 0
            /\ pc' = "done"
    /\ call' = NoCall
    /\ UNCHANGED <<db, nextId, now, rows, left, cur, processed, idx, cnt, 
                   ioLog, executed, raised>>
    /\ UNCHANGED reported
    /\ NotifyObserver

\* an error path that returns the summary without the 'error' event
OrgErrorSilent ==
    /\ pc = "error"
    /\ UNCHANGED clientVars
    /\ log' = log
    /\ results' = [results EXCEPT !.error = raised.cause]
    /\ pc' = "done"
    /\ call' = NoCall
    /\ UNCHANGED <<db, nextId, now, stage, rows, left, cur, processed, idx, cnt,
                   ioLog, executed, raised>>
    /\ UNCHANGED reported
    /\ NotifyObserver

\* "except Exception as e" of organize_all
\* an error path that logs the error and goes on with the next stage
OrgErrorResume ==
    /\ pc = "error"
    /\ UNCHANGED clientVars
    /\ log' = Notify(log, "overall", "error")
    /\ results' = [results EXCEPT !.error = raised.cause]
    /\ pc' = "end"
    /\ call' = NoCall
    /\ UNCHANGED <<db, nextId, now, stage, rows, left, cur, processed, idx, cnt,
                   ioLog, executed, raised>>
    /\ UNCHANGED reported
    /\ NotifyObserver

OrgError ==
    /\ pc = "error"
    /\ UNCHANGED clientVars
    /\ log' = Notify(log, "overall", "error")
    /\ results' = [results EXCEPT !.error = raised.cause]
    /\ pc' = "done"
    /\ call' = NoCall
    /\ UNCHANGED <<db, nextId, now, stage, rows, left, cur, processed, idx, cnt,
                   ioLog, executed, raised>>
    /\ UNCHANGED reported
    /\ NotifyObserver

----------------------------------------------------------------------------
(* Initial stores: what earlier turns and maintenance left behind *)

\* organize_all returns and POST /organize sends its response: the locals of
\* the run are gone, organization_log and _current_step stay
OrgReturn ==
    /\ pc = "done"
    /\ UNCHANGED clientVars
    /\ pc' = "idle"
    /\ rows' = <<>> /\ left' = 0 /\ cur' = NoSuchIds /\ processed' = {} /\ idx' = 1
    /\ cnt' = ZeroCount
    /\ results' = [stages |-> [k \in 1..4 |-> ZeroCount], error |-> "none"]
    /\ call' = NoCall /\ ioLog' = <<>> /\ executed' = <<>> /\ raised' = NotRaised
    /\ UNCHANGED <<db, nextId, now, stage, log>>
    /\ reported' = 0
    /\ NotifyObserver

\* time passes between two requests: datetime.now() is a later day
DayPasses ==
    /\ pc = "idle"
    /\ UNCHANGED clientVars
    /\ \E d \in {ThresholdMedium, ThresholdOld, ThresholdAncient} :
          d > now /\ now' = d
    /\ call' = NoCall
    /\ UNCHANGED <<db, nextId, pc, stage, rows, left, cur, processed, idx, cnt,
                   results, log, ioLog, executed, raised>>
    /\ UNCHANGED reported
    /\ NotifyObserver

----------------------------------------------------------------------------
(* Clients of the attribute store: /api/data/attributes in app/main.py *)

\* store calls of one behaviour
MaxCalls == 2
NameOf(i) == <<"n", i>>
\* the attribute names clients use
Names == {NameOf(1), NameOf(2)}
Values == {<<"a">>, <<"b">>}

\* the last call and its response; "updated" tells an add that found the name
NoRet == [op |-> "none", name |-> <<>>, value |-> <<>>, id |-> 0, ok |-> FALSE,
          updated |-> FALSE]

\* no call of generate_structured has been made
IdleGen ==
    [pc |-> "idle", two_stage |-> FALSE, prompt |-> <<>>,
     stage1_response |-> <<>>, sent |-> <<>>, response |-> <<>>,
     error |-> "none", value |-> <<>>]

ClientInit ==
    /\ ret = NoRet
    /\ addedId = [n \in Names |-> 0]
    /\ calls = 0
    /\ session = [history |-> <<>>, last |-> FALSE]
    /\ tasks = <<>>
    /\ processing = FALSE
    /\ gen = IdleGen

\* POST /api/data/attributes: record_id = add_attribute(name, value)
AddAttribute ==
    /\ pc = "idle"
    /\ calls < MaxCalls
    /\ \E name \in Names, value \in Values :
          LET r == add_attribute(db.attrs, nextId.attrs, name, value) IN
              /\ db' = [db EXCEPT !.attrs = r.tab]
              /\ nextId' = [nextId EXCEPT !.attrs = r.next]
              /\ ret' = [op |-> "add_attribute", name |-> name, value |-> value,
                         id |-> r.id, ok |-> TRUE,
                         updated |-> r.next = nextId.attrs]
              /\ addedId' = [addedId EXCEPT ![name] = r.id]
    /\ calls' = calls + 1
    /\ UNCHANGED <<now, orgVars, obsVars, gen, session, tasks, processing>>

\* PUT /api/data/attributes/<id>: success = update_attribute(id, value)
UpdateAttribute ==
    /\ pc = "idle"
    /\ calls < MaxCalls
    /\ \E id \in 1..MaxCalls, value \in Values :
          /\ db' = [db EXCEPT !.attrs = update_attribute(@, id, value)]
          /\ ret' = [op |-> "update_attribute", name |-> <<>>, value |-> value,
                     id |-> id, ok |-> HasId(db.attrs, id), updated |-> FALSE]
    /\ calls' = calls + 1
    /\ UNCHANGED <<nextId, now, orgVars, obsVars, gen, addedId, session, tasks,
                   processing>>

\* DELETE /api/data/attributes/<id>: success = delete_attribute(id)
DeleteAttribute ==
    /\ pc = "idle"
    /\ calls < MaxCalls
    /\ \E id \in 1..MaxCalls :
          /\ db' = [db EXCEPT !.attrs = delete_attribute(@, id)]
          /\ ret' = [op |-> "delete_attribute", name |-> <<>>, value |-> <<>>,
                     id |-> id, ok |-> HasId(db.attrs, id), updated |-> FALSE]
    /\ calls' = calls + 1
    /\ UNCHANGED <<nextId, now, orgVars, obsVars, gen, addedId, session, tasks,
                   processing>>

\* the levels 0 (none) .. 3 (strong) of the compression_level column
Levels == 0..3

\* table names a caller may pass
TableNames == {"user_attributes", "user_memories", "user_goals", "user_requests"}

\* an allow-list that lets every table name through
allowed_tables_any == TableNames

\* allowed_tables = ['user_attributes', 'user_memories', 'user_goals']
allowed_tables == {"user_attributes", "user_memories", "user_goals"}

\* the table of the store that a table name stands for
TableField(table_name) ==
    CASE table_name = "user_attributes" -> "attrs"
      [] table_name = "user_memories" -> "mems"
      [] table_name = "user_goals" -> "goals"
      [] OTHER -> "reqs"

\* a direct call update_compression_level(table_name, record_id, level):
\* a name outside the allow-list raises ValueError before any statement;
\* otherwise the UPDATE is committed and rowcount > 0 is returned.  (An
\* UPDATE of user_requests, which has no compression_level column, would
\* fail in the database and write nothing.)
SetCompressionLevel ==
    /\ pc = "idle"
    /\ calls < MaxCalls
    /\ \E table_name \in TableNames, id \in 1..(MaxRows + 1), level \in Levels :
          IF table_name \in allowed_tables /\ table_name # "user_requests"
          THEN /\ db' = [db EXCEPT ![TableField(table_name)] =
                                      update_compression_level(@, id, level)]
               /\ ret' = [op |-> "update_compression_level",
                          table |-> table_name, id |-> id, level |-> level,
                          ok |-> HasId(db[TableField(table_name)], id),
                          error |-> "none"]
          ELSE /\ db' = db
               /\ ret' = [op |-> "update_compression_level",
                          table |-> table_name, id |-> id, level |-> level,
                          ok |-> FALSE,
                          error |-> IF table_name \in allowed_tables
                                    THEN "OperationalError" ELSE "ValueError"]
    /\ calls' = calls + 1
    /\ UNCHANGED <<nextId, now, orgVars, obsVars, gen, addedId, session, tasks,
                   processing>>

\* priorities a caller may pass: the bounds and their neighbours outside
Priorities == {PriorityMin - 1, PriorityMin, PriorityMax, PriorityMax + 1}

\* POST /api/data/goals: record_id = add_goal(content, priority)
AddGoal ==
    /\ pc = "idle"
    /\ calls < MaxCalls
    /\ \E content \in Values, priority \in Priorities :
          LET r == add_goal(db.goals, nextId.goals, content, priority) IN
              /\ db' = [db EXCEPT !.goals = r.tab]
              /\ nextId' = [nextId EXCEPT !.goals = r.next]
              /\ ret' = [op |-> "add_goal", id |-> r.id, priority |-> priority]
    /\ calls' = calls + 1
    /\ UNCHANGED <<now, orgVars, obsVars, gen, addedId, session, tasks,
                   processing>>

\* an argument that is None is the empty sequence, a value v is <<v>>
GoalContents == {<<>>} \cup {<<v>> : v \in Values}
GoalStatuses == {<<>>, <<"completed">>, <<"cancelled">>}
GoalPriorities == {<<>>} \cup {<<p>> : p \in Priorities}

\* update_goal(id, goal_content, goal_status, priority): the SET clause holds
\* the arguments that are not None
update_goal(t, id, content, status, priority) ==
    LET t1 == IF content # <<>> THEN update_goal_content(t, id, content[1])
              ELSE t
        t2 == IF status # <<>> THEN update_goal_status(t1, id, status[1])
              ELSE t1
    IN  IF priority # <<>> THEN update_goal_priority(t2, id, priority[1])
        ELSE Rewrite(t2, {id}, "id", id)

\* PUT /api/data/goals/<id>: success = update_goal(id, content, status,
\* priority)
UpdateGoal ==
    /\ pc = "idle"
    /\ calls < MaxCalls
    /\ \E id \in 1..MaxCalls, content \in GoalContents, status \in GoalStatuses,
          priority \in GoalPriorities :
          /\ db' = [db EXCEPT !.goals =
                                 update_goal(@, id, content, status, priority)]
          /\ ret' = [op |-> "update_goal", id |-> id,
                     ok |-> HasId(db.goals, id)]
    /\ calls' = calls + 1
    /\ UNCHANGED <<nextId, now, orgVars, obsVars, gen, addedId, session, tasks,
                   processing>>

----------------------------------------------------------------------------
(* The chat turn and its extraction thread: app/main.py,                   *)
(* app/memory_extractor.py, app/structured_llm_client.py                   *)

\* chat turns of one behaviour
MaxTurns == 2


\* a text holds a word of RESET_TRIGGER_WORDS when it holds this character
Trigger == "t"
ContainsTrigger(text) == \E i \in 1..Len(text) : text[i] = Trigger

\* the 'message' field of a request to /chat
RawInputs == { <<" ">>, <<"u", " ">>, <<"t">> }

\* what the chat call to the backend can come to
ChatCalls == {[failed |-> FALSE, content |-> <<"r">>],
              [failed |-> TRUE, content |-> <<>>]}

\* should_reset_history: a trigger word, or the session timed out
should_reset_history(user_input, last, elapsed) ==
    ContainsTrigger(user_input) \/ (last /\ elapsed)

Message(role, content) == [role |-> role, content |-> content]

\* history[-4]['content'] if len(history) >= 4 else ""
PrevAiResponse(history) ==
    IF Len(history) >= 4 THEN history[Len(history) - 3].content ELSE <<>>

EmptyExtraction ==
    [attributes |-> <<>>, memories |-> <<>>, goals |-> <<>>, requests |-> <<>>]

\* JSON objects the second stage can answer with
StructuredData ==
    { EmptyExtraction,
      [EmptyExtraction EXCEPT
          !.attributes = <<[name |-> NameOf(1), value |-> <<"a">>]>>,
          !.memories = <<[content |-> <<"m">>]>>],
      [EmptyExtraction EXCEPT
          !.goals = <<[content |-> <<"g">>, priority |-> PriorityMax]>>,
          !.requests = <<[content |-> <<"q">>]>>],
      [EmptyExtraction EXCEPT
          !.memories = <<[content |-> <<"m">>]>>,
          !.goals = <<[content |-> <<"g">>, priority |-> PriorityMax + 1]>>] }

\* What generate_structured can come to: the first or the second call to the
\* backend raises, the second answer is text that is no JSON, or it is JSON
StructuredReplies ==
    {[kind |-> k, data |-> EmptyExtraction] : k \in {"raise1", "raise2", "text"}}
        \cup {[kind |-> "json", data |-> d] : d \in StructuredData}

\* ExtractedMemories.model_validate: the field constraints hold
model_validate(data) ==
    \A i \in 1..Len(data.goals) :
        data.goals[i].priority \in PriorityMin..PriorityMax

\* the exception generate_structured raises on reply o, "none" if it returns
GenerationError(o) ==
    CASE o.kind \in {"raise1", "raise2"} -> "call"
      [] o.kind = "text" -> "parse"
      [] o.kind = "json" /\ ~model_validate(o.data) -> "validation"
      [] OTHER -> "none"

\* an extraction that hands on what the reply held, valid or not
extract_memories_unchecked(o) == o.data

\* extract_memories: the lists of the model object, four empty lists on any
\* exception
extract_memories(o) ==
    IF GenerationError(o) # "none" THEN EmptyExtraction ELSE o.data

----------------------------------------------------------------------------
(* generate_structured, call by call: app/structured_llm_client.py *)

\* task prompts handed to generate_structured
Prompts == TextReplies

\* the schema text model_json_schema() that the final prompt carries
Schema == <<"s">>

\* the final answers of the backend: text that is no JSON, or JSON
FinalReplies == {o \in StructuredReplies : o.kind \in {"text", "json"}}

\* the prompts: the texts that the f-string embeds, in their order
Stage1Prompt(prompt) == [stage |-> "1", parts |-> <<prompt>>]
\* a second prompt that leaves out the answer to the first
Stage2PromptAlone(stage1_response, prompt) ==
    [stage |-> "2", parts |-> <<prompt, Schema>>]

Stage2Prompt(stage1_response, prompt) ==
    [stage |-> "2", parts |-> <<stage1_response, prompt, Schema>>]
DirectPrompt(prompt) == [stage |-> "direct", parts |-> <<prompt, Schema>>]

\* a conversion that fills in an empty object where the answer does not fit
parse_to_model_lenient(o) ==
    IF GenerationError(o) = "none"
    THEN [error |-> "none", value |-> <<o.data>>]
    ELSE [error |-> "none", value |-> <<EmptyExtraction>>]

\* _parse_to_model: json.loads and model_validate; every exception becomes
\* ValueError.  The value is a sequence of no or one object.
parse_to_model(o) ==
    IF GenerationError(o) = "none"
    THEN [error |-> "none", value |-> <<o.data>>]
    ELSE [error |-> "ValueError", value |-> <<>>]

\* generate_structured(prompt, response_model, enable_two_stage)
GenStart ==
    /\ gen.pc = "idle"
    /\ \E prompt \in Prompts, enable_two_stage \in BOOLEAN :
          gen' = [IdleGen EXCEPT !.pc = IF enable_two_stage THEN "stage1"
                                                            ELSE "direct",
                                 !.two_stage = enable_two_stage,
                                 !.prompt = prompt]
    /\ UNCHANGED <<db, nextId, now, orgVars, obsVars, ret, addedId, calls,
                   session, tasks, processing>>

\* stage1_response = self._call_ollama(stage1_prompt, system_prompt): the
\* request is sent; the call returns the content or raises
GenStage1 ==
    /\ gen.pc = "stage1"
    /\ \/ \E r \in TextReplies :
             gen' = [gen EXCEPT !.sent = Append(@, Stage1Prompt(gen.prompt)),
                                !.stage1_response = r,
                                !.pc = "stage2"]
       \/ gen' = [gen EXCEPT !.sent = Append(@, Stage1Prompt(gen.prompt)),
                             !.error = "Exception",
                             !.pc = "raised"]
    /\ UNCHANGED <<db, nextId, now, orgVars, obsVars, ret, addedId, calls,
                   session, tasks, processing>>

\* stage2_response = self._call_ollama(stage2_prompt, system_prompt) and
\* return self._parse_to_model(stage2_response, response_model)
GenStage2 ==
    /\ gen.pc = "stage2"
    /\ LET q == Stage2Prompt(gen.stage1_response, gen.prompt) IN
          \/ \E o \in FinalReplies :
                gen' = [gen EXCEPT !.sent = Append(@, q),
                                   !.response = <<o>>,
                                   !.error = parse_to_model(o).error,
                                   !.value = parse_to_model(o).value,
                                   !.pc = IF parse_to_model(o).error = "none"
                                          THEN "returned" ELSE "raised"]
          \/ gen' = [gen EXCEPT !.sent = Append(@, q),
                                !.error = "Exception",
                                !.pc = "raised"]
    /\ UNCHANGED <<db, nextId, now, orgVars, obsVars, ret, addedId, calls,
                   session, tasks, processing>>

\* _direct_generation: one call, then _parse_to_model
GenDirect ==
    /\ gen.pc = "direct"
    /\ LET q == DirectPrompt(gen.prompt) IN
          \/ \E o \in FinalReplies :
                gen' = [gen EXCEPT !.sent = Append(@, q),
                                   !.response = <<o>>,
                                   !.error = parse_to_model(o).error,
                                   !.value = parse_to_model(o).value,
                                   !.pc = IF parse_to_model(o).error = "none"
                                          THEN "returned" ELSE "raised"]
          \/ gen' = [gen EXCEPT !.sent = Append(@, q),
                                !.error = "Exception",
                                !.pc = "raised"]
    /\ UNCHANGED <<db, nextId, now, orgVars, obsVars, ret, addedId, calls,
                   session, tasks, processing>>

----------------------------------------------------------------------------
(* _extract_json: app/structured_llm_client.py *)

\* longest response text
MaxText == 4

\* the characters of a response that _extract_json tells apart: the braces,
\* the brackets, any other character, and as one character each the fence
\* "```" (Fence) and the fence with its language tag "```json" (FenceJson)
Fence == "F"
FenceJson == "J"
ResponseChars == {"{", "}", "[", "]", "x", Fence, FenceJson}
Responses == UNION {[1..n -> ResponseChars] : n \in 0..MaxText}

\* index of the first character of t that is in cs, 0 if there is none
FirstIn(t, cs) ==
    IF \E i \in 1..Len(t) : t[i] \in cs
    THEN CHOOSE i \in 1..Len(t) : t[i] \in cs /\ \A j \in 1..(i - 1) : t[j] \notin cs
    ELSE 0

\* index of the last character of t that is in cs, 0 if there is none
LastIn(t, cs) ==
    IF \E i \in 1..Len(t) : t[i] \in cs
    THEN CHOOSE i \in 1..Len(t) :
             t[i] \in cs /\ \A j \in (i + 1)..Len(t) : t[j] \notin cs
    ELSE 0

\* t up to its first character in cs
UpTo(t, cs) == IF FirstIn(t, cs) = 0 THEN t ELSE SubSeq(t, 1, FirstIn(t, cs) - 1)

\* t after its first character in cs
After(t, cs) == SubSeq(t, FirstIn(t, cs) + 1, Len(t))

\* "text.split('```json')[1].split('```')[0]", or with '```' alone, or text
FencedContent(text) ==
    IF FirstIn(text, {FenceJson}) # 0
    THEN UpTo(After(text, {FenceJson}), {Fence, FenceJson})
    ELSE IF FirstIn(text, {Fence}) # 0
         THEN UpTo(After(text, {Fence}), {Fence})
         ELSE text

\* the closing character of an opening one
Closing(c) == IF c = "{" THEN "}" ELSE "]"

\* position p starts a match of \{[\s\S]*\} or of \[[\s\S]*\]
MatchesAt(t, p) ==
    /\ t[p] \in {"{", "["}
    /\ \E q \in (p + 1)..Len(t) : t[q] = Closing(t[p])

\* re.search(r'(\{[\s\S]*\}|\[[\s\S]*\])', text): the leftmost position with a
\* match, and from there the longest match (the star is greedy)
re_search(t) ==
    IF \E p \in 1..Len(t) : MatchesAt(t, p)
    THEN LET p == CHOOSE p \in 1..Len(t) :
                      MatchesAt(t, p) /\ \A j \in 1..(p - 1) : ~MatchesAt(t, j)
         IN  [found |-> TRUE,
              group |-> SubSeq(t, p, LastIn(t, {Closing(t[p])}))]
    ELSE [found |-> FALSE, group |-> <<>>]

\* _extract_json(text)
extract_json(text) ==
    LET t == FencedContent(text)
    IN  IF re_search(t).found THEN re_search(t).group ELSE Strip(t)

\* a call of _extract_json on a response, one in a behaviour
ExtractJson ==
    /\ calls = 0
    /\ \E text \in Responses :
          ret' = [op |-> "_extract_json", text |-> text,
                  json_str |-> extract_json(text)]
    /\ calls' = calls + 1
    /\ UNCHANGED <<db, nextId, now, orgVars, obsVars, gen, addedId, session, tasks,
                   processing>>

Tagged(kind, items) == [i \in 1..Len(items) |-> [kind |-> kind, item |-> items[i]]]

\* the order save_extracted_memories walks the candidates in
Items(extracted) ==
    Tagged("attributes", extracted.attributes) \o Tagged("memories", extracted.memories)
        \o Tagged("goals", extracted.goals) \o Tagged("requests", extracted.requests)

ZeroSaved == [attributes |-> 0, memories |-> 0, goals |-> 0, requests |-> 0]

\* the store call save_extracted_memories makes for one candidate
SaveItem(d, next, day, it) ==
    CASE it.kind = "attributes" ->
            LET r == add_attribute(d.attrs, next.attrs, it.item.name, it.item.value)
            IN  [db |-> [d EXCEPT !.attrs = r.tab],
                 next |-> [next EXCEPT !.attrs = r.next]]
      [] it.kind = "memories" ->
            LET r == add_memory(d.mems, next.mems, it.item.content, day)
            IN  [db |-> [d EXCEPT !.mems = r.tab],
                 next |-> [next EXCEPT !.mems = r.next]]
      [] it.kind = "goals" ->
            LET r == add_goal(d.goals, next.goals, it.item.content, it.item.priority)
            IN  [db |-> [d EXCEPT !.goals = r.tab],
                 next |-> [next EXCEPT !.goals = r.next]]
      [] it.kind = "requests" ->
            LET r == add_request(d.reqs, next.reqs, it.item.content)
            IN  [db |-> [d EXCEPT !.reqs = r.tab],
                 next |-> [next EXCEPT !.reqs = r.next]]

\* get_recent_memories(limit): WHERE is_active = 1 ORDER BY updated_at DESC
\* LIMIT limit
get_recent_memories(d, limit) ==
    LET active == SelectSeq(d.mems, LAMBDA r : r.active)
    IN  SubSeq(active, 1, Min(limit, Len(active)))

\* get_user_context: four reads of the store, no write
get_user_context(d) ==
    [attributes |-> get_all_attributes(d),
     memories |-> get_recent_memories(d, 20),
     goals |-> get_all_goals(d),
     requests |-> get_all_requests(d)]

\* POST /chat
Chat ==
    /\ Len(tasks) < MaxTurns
    /\ \E raw \in RawInputs, elapsed \in BOOLEAN, c \in ChatCalls :
          LET user_input == Strip(raw)
              history == IF should_reset_history(user_input, session.last, elapsed)
                         THEN <<>> ELSE session.history
              context == get_user_context(db)
              ai_response == generate(c)
              updated == history \o <<Message("user", user_input),
                                      Message("assistant", ai_response)>>
          IN  IF user_input = <<>>
              THEN /\ ret' = [op |-> "chat", name |-> <<>>, value |-> <<>>,
                              id |-> 0, ok |-> FALSE, updated |-> FALSE]
                   /\ UNCHANGED <<session, tasks>>
              ELSE /\ session' = [history |-> updated, last |-> TRUE]
                   /\ tasks' = Append(tasks,
                         [pc |-> "spawned", user_input |-> user_input,
                          history |-> updated, ai_response |-> <<>>,
                          error |-> "none", extracted |-> EmptyExtraction,
                          todo |-> <<>>, saved_counts |-> ZeroSaved,
                          existing |-> 0, record_ids |-> <<>>])
                   /\ ret' = [op |-> "chat", name |-> <<>>, value |-> ai_response,
                              id |-> 0, ok |-> TRUE, updated |-> FALSE]
    /\ UNCHANGED <<db, nextId, now, orgVars, obsVars, gen, addedId, calls, processing>>

\* POST /clear_history
ClearHistory ==
    /\ session # [history |-> <<>>, last |-> FALSE]
    /\ session' = [history |-> <<>>, last |-> FALSE]
    /\ UNCHANGED <<db, nextId, now, orgVars, obsVars, gen, ret, addedId, calls, tasks,
                   processing>>

\* extract_and_save up to the call of process_input
TaskStart ==
    \E i \in DOMAIN tasks :
        /\ tasks[i].pc = "spawned"
        /\ processing' = TRUE
        /\ tasks' = [tasks EXCEPT ![i].pc = "extract",
                                  ![i].ai_response = PrevAiResponse(tasks[i].history)]
        /\ UNCHANGED <<db, nextId, now, orgVars, obsVars, gen, ret, addedId, calls,
                       session>>

\* the arguments of a call of process_input: the user's text, and the
\* assistant's text before it ("" when there is none), which here states a
\* fact the user's text does not hold
UserUtterances == {<<"u">>, <<"v">>}
AiUtterances == {<<>>, <<"m">>}

\* process_input(user_input, ai_response) is entered
ProcessInput ==
    /\ Len(tasks) < MaxTurns
    /\ \E user_input \in UserUtterances, ai_response \in AiUtterances :
          tasks' = Append(tasks,
                      [pc |-> "extract", user_input |-> user_input,
                       history |-> <<>>, ai_response |-> ai_response,
                       error |-> "none", extracted |-> EmptyExtraction,
                       todo |-> <<>>, saved_counts |-> ZeroSaved,
                       existing |-> 0, record_ids |-> <<>>])
    /\ UNCHANGED <<db, nextId, now, orgVars, obsVars, gen, ret, addedId, calls,
                   session, processing>>

\* process_input: extracted = extract_memories(user_input, ai_response)
TaskExtract ==
    \E i \in DOMAIN tasks :
        /\ tasks[i].pc = "extract"
        /\ \E o \in StructuredReplies :
              tasks' = [tasks EXCEPT ![i].pc = "save",
                                     ![i].error = GenerationError(o),
                                     ![i].extracted = extract_memories(o),
                                     ![i].todo = Items(extract_memories(o))]
        /\ UNCHANGED <<db, nextId, now, orgVars, obsVars, gen, ret, addedId, calls,
                       session, processing>>

\* save_extracted_memories: one candidate is stored
TaskSave ==
    \E i \in DOMAIN tasks :
        /\ tasks[i].pc = "save"
        /\ tasks[i].todo # <<>>
        /\ LET it == Head(tasks[i].todo)
               r == SaveItem(db, nextId, now, it)
           IN  /\ db' = r.db
               /\ nextId' = r.next
               /\ tasks' = [tasks EXCEPT ![i].todo = Tail(@),
                                         ![i].saved_counts[it.kind] = @ + 1]
        /\ UNCHANGED <<now, orgVars, obsVars, gen, ret, addedId, calls, session,
                       processing>>

\* add_attribute in its statements, as two threads interleave them: the
\* SELECT of the name on the thread's own connection
TaskSaveSelect ==
    \E i \in DOMAIN tasks :
        /\ tasks[i].pc = "save"
        /\ tasks[i].todo # <<>>
        /\ Head(tasks[i].todo).kind = "attributes"
        /\ tasks' = [tasks EXCEPT
                        ![i].pc = "write",
                        ![i].existing =
                            ExistingAttribute(db.attrs,
                                              Head(tasks[i].todo).item.name)]
        /\ UNCHANGED <<db, nextId, now, orgVars, obsVars, gen, ret, addedId, calls,
                       session, processing>>

\* add_attribute: the UPDATE by name or the INSERT, the commit and the return
TaskSaveWrite ==
    \E i \in DOMAIN tasks :
        /\ tasks[i].pc = "write"
        /\ LET it == Head(tasks[i].todo).item
               record_id == IF tasks[i].existing # 0 THEN tasks[i].existing
                            ELSE nextId.attrs
           IN  /\ IF tasks[i].existing # 0
                  THEN /\ db' = [db EXCEPT !.attrs =
                                    Rewrite(@, {@[j].id : j \in {k \in 1..Len(@) :
                                                            @[k].name = it.name}},
                                            "value", it.value)]
                       /\ UNCHANGED nextId
                  ELSE /\ db' = [db EXCEPT !.attrs =
                                    add_attribute_insert(@, nextId.attrs, it.name,
                                                         it.value).tab]
                       /\ nextId' = [nextId EXCEPT !.attrs = @ + 1]
               /\ tasks' = [tasks EXCEPT
                               ![i].pc = "save",
                               ![i].todo = Tail(@),
                               ![i].saved_counts["attributes"] = @ + 1,
                               ![i].record_ids = Append(@, record_id)]
        /\ UNCHANGED <<now, orgVars, obsVars, gen, ret, addedId, calls, session,
                       processing>>

\* save_extracted_memories: a candidate that is no attribute is stored by
\* one INSERT
TaskSaveInsert ==
    \E i \in DOMAIN tasks :
        /\ tasks[i].pc = "save"
        /\ tasks[i].todo # <<>>
        /\ Head(tasks[i].todo).kind # "attributes"
        /\ LET it == Head(tasks[i].todo)
               r == SaveItem(db, nextId, now, it)
           IN  /\ db' = r.db
               /\ nextId' = r.next
               /\ tasks' = [tasks EXCEPT ![i].todo = Tail(@),
                                         ![i].saved_counts[it.kind] = @ + 1]
        /\ UNCHANGED <<now, orgVars, obsVars, gen, ret, addedId, calls, session,
                       processing>>

\* an exception that ends the thread without the finally clause
TaskRaiseNoFinally ==
    \E i \in DOMAIN tasks :
        /\ tasks[i].pc = "save"
        /\ tasks[i].todo # <<>>
        /\ tasks' = [tasks EXCEPT ![i].pc = "raised"]
        /\ UNCHANGED <<db, nextId, now, orgVars, obsVars, gen, ret, addedId, calls,
                       session, processing>>

\* a store call of save_extracted_memories raises (sqlite3.Error): nothing in
\* process_input catches it, the finally clause of extract_and_save runs
\* and the thread ends with the exception
TaskRaise ==
    \E i \in DOMAIN tasks :
        /\ tasks[i].pc = "save"
        /\ tasks[i].todo # <<>>
        /\ tasks' = [tasks EXCEPT ![i].pc = "raised"]
        /\ processing' = FALSE
        /\ UNCHANGED <<db, nextId, now, orgVars, obsVars, gen, ret, addedId, calls,
                       session>>

\* process_input returns; "finally: is_memory_processing = False"
TaskFinish ==
    \E i \in DOMAIN tasks :
        /\ tasks[i].pc = "save"
        /\ tasks[i].todo = <<>>
        /\ tasks' = [tasks EXCEPT ![i].pc = "returned"]
        /\ processing' = FALSE
        /\ UNCHANGED <<db, nextId, now, orgVars, obsVars, gen, ret, addedId, calls,
                       session>>

Days == {0, ThresholdMedium, ThresholdOld, ThresholdAncient}

\* the locals of a request thread that is not inside organize_all
IdleThread ==
    [pc |-> "idle", stage |-> 0, rows |-> <<>>, left |-> 0, cur |-> NoSuchIds,
     processed |-> {}, idx |-> 1, cnt |-> ZeroCount,
     results |-> [stages |-> [k \in 1..4 |-> ZeroCount], error |-> "none"],
     call |-> NoCall, ioLog |-> <<>>, executed |-> <<>>, raised |-> NotRaised,
     reported |-> 0]

\* the organizer after construction, no request thread inside organize_all,
\* and the clients before their first call
OrganizerIdle ==
    /\ pc = "idle" /\ stage = 0 /\ rows = <<>> /\ left = 0 /\ cur = NoSuchIds
    /\ processed = {} /\ idx = 1 /\ cnt = ZeroCount
    /\ results = [stages |-> [k \in 1..4 |-> ZeroCount], error |-> "none"]
    /\ log = <<>>
    /\ callback = FALSE /\ seen = <<>> /\ parked = IdleThread
    /\ call = NoCall /\ ioLog = <<>> /\ executed = <<>> /\ raised = NotRaised
    /\ reported = 0
    /\ ClientInit

OrgInit ==
    /\ \E ka, km, kg, kr \in 0..MaxRows :
          /\ ka + km + kg + kr <= MaxRows
          /\ nextId = [attrs |-> ka + 1, mems |-> km + 1, goals |-> kg + 1,
                       reqs |-> kr + 1]
          /\ \E lv \in 0..3 :
                \* rows k, ..., 1: the last inserted first
                db = [attrs |-> [i \in 1..ka |->
                                    [id |-> ka + 1 - i,
                                     name |-> NameOf(ka + 1 - i),
                                     value |-> <<"a", "b">>, level |-> 0]],
                      mems |-> [i \in 1..km |->
                                    [id |-> km + 1 - i,
                                     content |-> <<"a", "b", "c">>,
                                     active |-> TRUE, level |-> lv,
                                     created |-> 0, access |-> 0]],
                      goals |-> [i \in 1..kg |->
                                    [id |-> kg + 1 - i, content |-> <<"a", "b">>,
                                     status |-> "active", priority |-> 5,
                                     level |-> 0]],
                      reqs |-> [i \in 1..kr |->
                                    [id |-> kr + 1 - i, content |-> <<"a", "b">>,
                                     active |-> TRUE]]]
    /\ now \in Days
    /\ db.mems = <<>> => now = 0
    \* a level is only ever set to the target of the record's age
    /\ \A i \in 1..Len(db.mems) :
          db.mems[i].level = 0 \/ TargetLevel(now, db.mems[i].level - 1) # 0
    /\ OrganizerIdle

Init == OrgInit

Next ==
    \/ OrgStart
    \/ StageBegin
    \/ DetectConflicts
    \/ ResolveConflict
    \/ DetectDuplicates
    \/ MergeStep
    \/ MergeDelete
    \/ Refetch
    \/ FormatStep
    \/ CompressRead
    \/ CompressStep
    \/ StageEnd
    \/ OrgError

Spec == Init /\ [][Next]_vars

\* The process is killed inside organize_all: every store call has committed
\* on its own (conn.commit() in each database function), so the store keeps
\* what was written before; nothing runs after.
Crash ==
    /\ pc \notin {"idle", "done", "crashed"}
    /\ pc' = "crashed"
    /\ raised' = [stage |-> stage, cause |-> "Crash"]
    /\ UNCHANGED <<db, nextId, now, stage, rows, left, cur, processed, idx, cnt,
                   results, log, callback, seen, parked, call, ioLog, executed,
                   reported, clientVars>>

\* One run that may be killed at any point
InitCrash == OrgInit

NextCrash ==
    \/ Next
    \/ Crash

SpecCrash == InitCrash /\ [][NextCrash]_vars

\* the locals of the request thread that is scheduled
ThisThread ==
    [pc |-> pc, stage |-> stage, rows |-> rows, left |-> left, cur |-> cur,
     processed |-> processed, idx |-> idx, cnt |-> cnt, results |-> results,
     call |-> call, ioLog |-> ioLog, executed |-> executed, raised |-> raised,
     reported |-> reported]

\* the request thread t is inside client.generate, waiting for the reply to a
\* conflict-detection or reformat prompt
Waiting(t) ==
    \/ t.pc = "detect"
    \/ t.pc = "format" /\ t.idx <= Min(Len(t.rows), MAX_ITEMS_PER_STEP)

\* The server handles each request in a thread of its own (app.run starts the
\* threaded development server) and organize_memories takes no lock: while
\* the thread of one POST /organize waits for the backend, or is outside
\* organize_all, the thread of another runs.  Both work on the one organizer
\* of get_memory_organizer, on its organization_log and on the store.
Switch ==
    /\ Waiting(ThisThread) \/ pc \in {"idle", "done"}
    /\ pc # "idle" \/ parked.pc # "idle"
    /\ parked' = ThisThread
    /\ pc' = parked.pc /\ stage' = parked.stage /\ rows' = parked.rows
    /\ left' = parked.left /\ cur' = parked.cur
    /\ processed' = parked.processed /\ idx' = parked.idx /\ cnt' = parked.cnt
    /\ results' = parked.results
    /\ call' = parked.call /\ ioLog' = parked.ioLog
    /\ executed' = parked.executed /\ raised' = parked.raised
    /\ reported' = parked.reported
    /\ UNCHANGED <<db, nextId, now, log, callback, seen, clientVars>>

\* Two request threads of POST /organize, one run each, over a store of
\* attributes
InitConc ==
    /\ OrgInit
    /\ db.attrs # <<>>
    /\ db.mems = <<>> /\ db.goals = <<>> /\ db.reqs = <<>>

NextConc ==
    \/ OrgStart
    \/ StageBegin
    \/ DetectConflicts
    \/ ResolveConflict
    \/ Refetch
    \/ FormatStep
    \/ StageEnd
    \/ OrgError
    \/ Switch

SpecConc == InitConc /\ [][NextConc]_vars

\* set_progress_callback(callback), called before the run as the module's
\* own driver does
SetProgressCallback ==
    /\ pc = "idle"
    /\ ~callback
    /\ callback' = TRUE
    /\ UNCHANGED <<db, nextId, now, pc, stage, rows, left, cur, processed, idx,
                   cnt, results, log, seen, parked, obsVars, clientVars>>

\* One run, with or without an observer
InitObserver == OrgInit

NextObserver ==
    \/ Next
    \/ SetProgressCallback

SpecObserver == InitObserver /\ [][NextObserver]_vars

\* Episodic memories over any number of runs, days apart
InitEpisodes ==
    /\ OrgInit
    /\ db.attrs = <<>> /\ db.goals = <<>> /\ db.reqs = <<>>
    /\ now = 0

NextEpisodes ==
    \/ OrgStart
    \/ StageBegin
    \/ DetectDuplicates
    \/ MergeStep
    \/ MergeDelete
    \/ Refetch
    \/ FormatStep
    \/ CompressRead
    \/ CompressStep
    \/ StageEnd
    \/ OrgError
    \/ OrgReturn
    \/ DayPasses

SpecEpisodes == InitEpisodes /\ [][NextEpisodes]_vars

\* The attribute store under sequential client calls and organization runs
InitAttr ==
    /\ OrgInit
    /\ db = [attrs |-> <<>>, mems |-> <<>>, goals |-> <<>>, reqs |-> <<>>]

NextAttr ==
    \/ AddAttribute
    \/ UpdateAttribute
    \/ DeleteAttribute
    \/ OrgStart
    \/ StageBegin
    \/ DetectConflicts
    \/ ResolveConflict
    \/ Refetch
    \/ FormatStep
    \/ StageEnd
    \/ OrgError
    \/ OrgReturn

SpecAttr == InitAttr /\ [][NextAttr]_vars

\* The store under direct calls of the compression-level operation
InitStore == OrgInit

NextStore == SetCompressionLevel

SpecStore == InitStore /\ [][NextStore]_vars

\* Requests over any number of runs, one right after the other.  The store
\* starts with three requests: after a merge removed one, the next run still
\* has two to compare.
TwiceRows == 3

InitTwice ==
    /\ db = [attrs |-> <<>>, mems |-> <<>>, goals |-> <<>>,
             reqs |-> [i \in 1..TwiceRows |->
                          [id |-> TwiceRows + 1 - i, content |-> <<"a", "b">>,
                           active |-> TRUE]]]
    /\ nextId = [attrs |-> 1, mems |-> 1, goals |-> 1, reqs |-> TwiceRows + 1]
    /\ now = 0
    /\ OrganizerIdle

NextTwice ==
    \/ OrgStart
    \/ StageBegin
    \/ DetectDuplicates
    \/ MergeStep
    \/ MergeDelete
    \/ Refetch
    \/ FormatStep
    \/ StageEnd
    \/ OrgError
    \/ OrgReturn

SpecTwice == InitTwice /\ [][NextTwice]_vars

\* One call of generate_structured
InitStructured ==
    /\ OrgInit
    /\ db = [attrs |-> <<>>, mems |-> <<>>, goals |-> <<>>, reqs |-> <<>>]

NextStructured ==
    \/ GenStart
    \/ GenStage1
    \/ GenStage2
    \/ GenDirect

SpecStructured == InitStructured /\ [][NextStructured]_vars

\* Chat turns whose extraction threads run at the same time, add_attribute
\* statement by statement
InitRace ==
    /\ OrgInit
    /\ db = [attrs |-> <<>>, mems |-> <<>>, goals |-> <<>>, reqs |-> <<>>]

NextRace ==
    \/ Chat
    \/ TaskStart
    \/ TaskExtract
    \/ TaskSaveSelect
    \/ TaskSaveWrite
    \/ TaskSaveInsert
    \/ TaskFinish

SpecRace == InitRace /\ [][NextRace]_vars

\* An organization run up to the end of its attribute stage and beyond over
\* single rows, while extraction threads store what they extracted
InitLost ==
    /\ OrgInit
    /\ Len(db.attrs) = 1
    /\ db.mems = <<>> /\ db.goals = <<>> /\ db.reqs = <<>>

NextLost ==
    \/ OrgStart
    \/ StageBegin
    \/ Refetch
    \/ FormatStep
    \/ StageEnd
    \/ OrgError
    \/ ProcessInput
    \/ TaskExtract
    \/ TaskSave
    \/ TaskFinish

SpecLost == InitLost /\ [][NextLost]_vars

\* Organization runs one after the other over all four categories
InitRuns == OrgInit

NextRuns ==
    \/ Next
    \/ OrgReturn

SpecRuns == InitRuns /\ [][NextRuns]_vars

\* One organization run whose thread keeps being scheduled and whose
\* backend and store calls return: a step that can be taken is taken
InitFair == OrgInit

NextFair == Next

SpecFair == InitFair /\ [][NextFair]_vars /\ WF_vars(NextFair)

\* Calls of _extract_json
InitJson ==
    /\ OrgInit
    /\ db = [attrs |-> <<>>, mems |-> <<>>, goals |-> <<>>, reqs |-> <<>>]

NextJson == ExtractJson

SpecJson == InitJson /\ [][NextJson]_vars

\* The goal table under client calls
InitGoals ==
    /\ OrgInit
    /\ db = [attrs |-> <<>>, mems |-> <<>>, goals |-> <<>>, reqs |-> <<>>]

NextGoals ==
    \/ AddGoal
    \/ UpdateGoal

SpecGoals == InitGoals /\ [][NextGoals]_vars

\* Organization runs on a store of goals that earlier requests added and
\* brought to their statuses
GoalRows == 3

InitGoalRuns ==
    /\ \E st \in [1..GoalRows -> {"active", "completed", "cancelled"}] :
          db = [attrs |-> <<>>, mems |-> <<>>, reqs |-> <<>>,
                goals |-> [i \in 1..GoalRows |->
                              [id |-> GoalRows + 1 - i, content |-> <<"a", "b">>,
                               status |-> st[i], priority |-> 5, level |-> 0]]]
    /\ nextId = [attrs |-> 1, mems |-> 1, goals |-> GoalRows + 1, reqs |-> 1]
    /\ now = 0
    /\ OrganizerIdle

NextGoalRuns ==
    \/ OrgStart
    \/ StageBegin
    \/ DetectConflicts
    \/ ResolveConflict
    \/ Refetch
    \/ FormatStep
    \/ StageEnd
    \/ OrgError
    \/ OrgReturn

SpecGoalRuns == InitGoalRuns /\ [][NextGoalRuns]_vars

\* Calls of process_input with either text of the conversation
InitExtract ==
    /\ OrgInit
    /\ db = [attrs |-> <<>>, mems |-> <<>>, goals |-> <<>>, reqs |-> <<>>]

NextExtract ==
    \/ ProcessInput
    \/ TaskExtract
    \/ TaskSave
    \/ TaskFinish

SpecExtract == InitExtract /\ [][NextExtract]_vars

\* Chat turns and their extraction threads
InitChat ==
    /\ OrgInit
    /\ db = [attrs |-> <<>>, mems |-> <<>>, goals |-> <<>>, reqs |-> <<>>]

NextChat ==
    \/ Chat
    \/ ClearHistory
    \/ TaskStart
    \/ TaskExtract
    \/ TaskSave
    \/ TaskFinish

SpecChat == InitChat /\ [][NextChat]_vars

\* The same with store calls that may raise, and with threads that the
\* scheduler keeps running: a started thread takes its next step
NextChatFair ==
    \/ NextChat
    \/ TaskRaise

SpecChatFair ==
    /\ InitChat
    /\ [][NextChatFair]_vars
    /\ WF_vars(TaskStart)
    /\ WF_vars(TaskExtract)
    /\ WF_vars(TaskSave)
    /\ WF_vars(TaskFinish)

\* ------------------------------------------------------------------
\* Properties of organization runs (specifications Spec, SpecEpisodes)
\* ------------------------------------------------------------------

\* the pipeline position of a progress event's step (0 for "overall")
StageOf(step) ==
    IF step = "overall" THEN 0 ELSE CHOOSE k \in 1..4 : StepName(k) = step

\* event ev occurs in l before position i
Before(l, i, ev) == \E j \in 1..(i - 1) : l[j] = ev

\* the ids a sequence of executed pairs has used
UsedIds(ps) == UNION { {ps[i][1], ps[i][2]} : i \in 1..Len(ps) }

\* C1: a run visits the stages in the fixed order attributes, episodes,
\* goals, requests: a stage is started only after the stage before it has
\* completed, it completes only after it started, and the backend and store
\* traffic of the run never returns to an earlier stage.
C1_StageOrder ==
    /\ \A i \in 1..Len(log) :
          LET k == StageOf(log[i].step) IN
              /\ (log[i].status = "started" /\ k > 1)
                    => Before(log, i, Event(StepName(k - 1), "completed"))
              /\ (log[i].status = "completed" /\ k >= 1)
                    => Before(log, i, Event(log[i].step, "started"))
              /\ (log[i].status = "started" /\ k >= 1)
                    => ~Before(log, i, log[i])
    /\ \A i, j \in 1..Len(ioLog) : i < j => ioLog[i] < ioLog[j]

\* C1 witness: a run that finished normally, went through all four stages
\* and did IO in the first and in the last of them
C1_Witness ==
    /\ pc = "done"
    /\ results.error = "none"
    /\ ioLog = <<ATTRIBUTE, REQUEST>>
    /\ \A k \in 1..4 : \E i \in 1..Len(log) :
          log[i] = Event(StepName(k), "completed")
    /\ log[Len(log)] = Event("overall", "completed")

\* C2: over any number of organization runs, days apart (specification
\* SpecEpisodes), no step lowers the compression level of a memory, and a
\* step that changes the level of a memory is a compression step that stored
\* content strictly shorter than the content it read for that memory.
C2_MonotonicCompression ==
    [][\A i \in 1..Len(db.mems) :
          LET r == db.mems[i] IN
              /\ HasId(db'.mems, r.id)
              /\ RowOf(db'.mems, r.id).level >= r.level
              /\ RowOf(db'.mems, r.id).level # r.level
                    => /\ pc = "compress"
                       /\ rows[idx].id = r.id
                       /\ Len(RowOf(db'.mems, r.id).content)
                             < Len(rows[idx].content)]_vars

\* C2 witness: a finished run whose compression step raised every memory to
\* the highest level with shorter content
C2_Witness ==
    /\ pc = "done"
    /\ db.mems # <<>>
    /\ results.stages[EPISODE].compressed = Len(db.mems)
    /\ \A i \in 1..Len(db.mems) :
          db.mems[i].level = 3 /\ Len(db.mems[i].content) < 3

\* C3: the pairs a stage executes are pairwise disjoint in their ids, and a
\* reported pair that contains an id used by an earlier executed pair of the
\* stage is passed over without any change to the store.
C3_MergeConsumption ==
    [][/\ \A i, j \in 1..Len(executed') :
             i < j => {executed'[i][1], executed'[i][2]}
                         \cap {executed'[j][1], executed'[j][2]} = {}
       /\ (/\ pc \in {"merge", "resolve"}
           /\ left' = left - 1
           /\ cur'.dict
           /\ {cur'.id1, cur'.id2} \cap UsedIds(executed) # {})
             => /\ db' = db
                /\ executed' = executed
                /\ pc' = pc]_vars

\* C3 witness: the reply named the pair (1, 2) and then the pair (2, 1); the
\* first was executed and the second has just been passed over
C3_Witness ==
    /\ pc \in {"merge", "resolve"}
    /\ executed = << <<1, 2>> >>
    /\ cur = [dict |-> TRUE, id1 |-> 2, id2 |-> 1, newer |-> 0]
    /\ left = 0

\* C6: when an exception escapes stage k, the run ends with an overall/error
\* event and a summary that carries the error, and no stage after k is
\* started or does any IO.
C6_ErrorAborts ==
    raised.stage # 0
       => /\ \A i \in 1..Len(log) : StageOf(log[i].step) <= raised.stage
          /\ \A i \in 1..Len(ioLog) : ioLog[i] <= raised.stage
          /\ pc \in {"error", "done"}
          /\ pc = "done"
                => /\ log[Len(log)] = Event("overall", "error")
                   /\ results.error # "none"
                   /\ \A k \in 1..4 : k >= raised.stage
                         => results.stages[k] = ZeroCount

\* C6 witness: a run that ended on the error path of the goal stage after the
\* two stages before it did their work
C6_Witness ==
    /\ pc = "done"
    /\ raised.stage = GOAL
    /\ ioLog = <<ATTRIBUTE, EPISODE>>
    /\ results.error # "none"

\* C7: whatever text the backend returns for a detection prompt, the stage
\* treats it as at worst "zero pairs" and goes on to reformatting: no
\* detection reply sends the run to the error path.
C7_DetectionFailSoft ==
    raised.stage # 0 => raised.cause = "StoreError"

\* C8: a backend call that fails to connect leaves the store as it was: the
\* operation around it (formatting, merging, compressing) is a no-op.
C8_ConnectivityNoOp ==
    [][(call'.made /\ call'.failed) => db' = db]_vars

\* ------------------------------------------------------------------
\* Properties of the attribute store (specification SpecAttr)
\* ------------------------------------------------------------------

\* the rows of t named name
Named(t, name) == SelectSeq(t, LAMBDA r : r.name = name)

\* C4: when add_attribute(n, v1) returned an id and the row of that id has
\* not been deleted, add_attribute(n, v2) returns the same id, and afterwards
\* the table holds exactly one row named n, whose value is v2.
C4_UpsertByName ==
    [][(/\ calls' = calls + 1
        /\ ret'.op = "add_attribute"
        /\ addedId[ret'.name] # 0
        /\ HasId(db.attrs, addedId[ret'.name]))
          => /\ ret'.id = addedId[ret'.name]
             /\ Len(Named(get_all_attributes(db'), ret'.name)) = 1
             /\ Named(get_all_attributes(db'), ret'.name)[1].value = ret'.value
             /\ Named(get_all_attributes(db'), ret'.name)[1].id = ret'.id]_vars

\* C4 witness: the second add of a name has found the row of the first,
\* returned its id and left its own value in that row
C4_Witness ==
    /\ ret.op = "add_attribute"
    /\ ret.updated
    /\ ret.id = 1
    /\ ret.value = <<"b">>
    /\ addedId[ret.name] = 1
    /\ Len(Named(db.attrs, ret.name)) = 1
    /\ RowOf(db.attrs, 1).value = <<"b">>

\* C5: after any sequential series of add_attribute, update_attribute,
\* delete_attribute calls and organization runs, no two rows of the attribute
\* table have the same name.
C5_UniqueNames ==
    \A i, j \in 1..Len(db.attrs) :
        i # j => db.attrs[i].name # db.attrs[j].name

\* C5 witness: an organization run has finished and rewritten the one row
\* that two adds of the same name left in the table
C5_Witness ==
    /\ pc = "done"
    /\ ret.op = "add_attribute"
    /\ ret.updated
    /\ Len(db.attrs) = 1
    /\ results.stages[ATTRIBUTE].formatted = 1

\* ------------------------------------------------------------------
\* Properties of the chat turn and its extraction (specification SpecChat)
\* ------------------------------------------------------------------

\* C9: when the structured generation fails (the backend call raises, the
\* answer does not parse, or it does not validate), process_input returns
\* four empty candidate lists and saved counts of zero, and no step of that
\* call changes the store.
C9_ExtractionFailSoft ==
    [][\A i \in DOMAIN tasks :
          tasks'[i].error # "none"
             => /\ tasks'[i] # tasks[i] => (db' = db /\ nextId' = nextId)
                /\ tasks'[i].pc \in {"save", "returned"}
                /\ tasks'[i].extracted = EmptyExtraction
                /\ tasks'[i].saved_counts = ZeroSaved]_vars

\* C9 witness: process_input has returned after an answer that did not
\* validate, and after one that raised in the backend call
C9_Witness ==
    /\ Len(tasks) = 2
    /\ tasks[1].pc = "returned" /\ tasks[1].error = "validation"
    /\ tasks[2].pc = "returned" /\ tasks[2].error = "call"
    /\ db = [attrs |-> <<>>, mems |-> <<>>, goals |-> <<>>, reqs |-> <<>>]

\* the assistant message before the last user message of a history that ends
\* with a user message and its reply
PrecedingAssistant(h) ==
    IF Len(h) >= 3 /\ h[Len(h) - 2].role = "assistant"
    THEN h[Len(h) - 2].content ELSE <<>>

\* C10: the extraction task of a chat turn calls process_input with the
\* user message of the turn and the assistant message that came just before
\* it in the history (the empty text when there is none).
C10_PrecedingAssistant ==
    \A i \in DOMAIN tasks :
        tasks[i].pc # "spawned"
           => /\ tasks[i].user_input
                    = tasks[i].history[Len(tasks[i].history) - 1].content
              /\ tasks[i].ai_response = PrecedingAssistant(tasks[i].history)

\* ------------------------------------------------------------------
\* Properties of conflict resolution and merging (specification Spec)
\* ------------------------------------------------------------------

\* the step is an executed conflict resolution of the pair cur'
ResolutionExecuted ==
    pc = "resolve" /\ executed' # executed

\* the member of the pair e that is not its newer_id
OtherThanNewer(e) == IF e.newer = e.id1 THEN e.id2 ELSE e.id1

\* C11: when two active goals are reported as a conflict pair (id1, id2),
\* id1 # id2, with newer_id one of the two, the resolution sets the status
\* of the other goal to 'cancelled' and leaves the newer goal active with
\* the content it had.
C11_GoalConflictCancelsOlder ==
    [][(/\ ResolutionExecuted
        /\ stage = GOAL
        /\ cur'.id1 # cur'.id2
        /\ cur'.newer \in {cur'.id1, cur'.id2})
          => /\ RowOf(db'.goals, OtherThanNewer(cur')).status = "cancelled"
             /\ RowOf(db'.goals, cur'.newer).status = "active"
             /\ RowOf(db'.goals, cur'.newer).content
                   = RowOf(db.goals, cur'.newer).content
             /\ RowOf(db.goals, OtherThanNewer(cur')).status = "active"]_vars

\* C11 witness: the pair (1, 2) with newer_id 2 has been resolved: goal 1 is
\* cancelled, goal 2 is active
C11_Witness ==
    /\ stage = GOAL
    /\ pc = "resolve"
    /\ executed = << <<1, 2>> >>
    /\ cur = [dict |-> TRUE, id1 |-> 1, id2 |-> 2, newer |-> 2]
    /\ RowOf(db.goals, 1).status = "cancelled"
    /\ RowOf(db.goals, 2).status = "active"

\* the record id of category k is in the store and not removed (an attribute
\* row exists, a goal is active)
Kept(d, k, id) ==
    IF k = ATTRIBUTE
    THEN HasId(d.attrs, id)
    ELSE HasId(d.goals, id) /\ RowOf(d.goals, id).status = "active"

\* C12: for every pair the backend can report, an executed conflict
\* resolution removes exactly one record, and never the record that
\* newer_id names.
C12_NewerNeverRemoved ==
    [][ResolutionExecuted
          => /\ Cardinality({id \in IdsOf(rows) :
                                Kept(db, stage, id) /\ ~Kept(db', stage, id)}) = 1
             /\ Kept(db, stage, cur'.newer) => Kept(db', stage, cur'.newer)]_vars

\* the table of the category k in the store d
TableOf(d, k) == IF k = EPISODE THEN d.mems ELSE d.reqs

C14_EveryStageMergesDuplicates ==
    pc = "detect" => ENABLED DetectDuplicates

\* ------------------------------------------------------------------
\* Properties of the compression-level operation (specification SpecStore)
\* ------------------------------------------------------------------

\* C15: update_compression_level never lowers a record's level: a call with
\* a level below the stored one leaves the stored level as it is.
C15_LevelNeverLowered ==
    [][ret'.op = "update_compression_level"
          => \A i \in DOMAIN db.mems :
                RowOf(db'.mems, db.mems[i].id).level >= db.mems[i].level]_vars

\* C24: update_compression_level with a table name other than
\* user_attributes, user_memories and user_goals raises ValueError and
\* leaves the store as it was; with one of the three names and the id of a
\* stored row it sets that row's level to the argument and returns true.
C24_AllowListValidated ==
    [][ret'.op = "update_compression_level" =>
          LET listed == ret'.table \in
                           {"user_attributes", "user_memories", "user_goals"}
              f == TableField(ret'.table)
          IN  /\ ~listed => (ret'.error = "ValueError" /\ ~ret'.ok /\ db' = db)
              /\ (listed /\ HasId(db[f], ret'.id)) =>
                     /\ ret'.error = "none"
                     /\ ret'.ok
                     /\ RowOf(db'[f], ret'.id).level = ret'.level
                     /\ \A g \in DOMAIN db : g # f => db'[g] = db[g]]_vars

\* C24 witness: a call on a stored row of an allow-listed table has set its
\* level to 3 and returned true
C24_Witness ==
    /\ ret.op = "update_compression_level"
    /\ ret.table \in {"user_attributes", "user_memories", "user_goals"}
    /\ ret.ok
    /\ ret.level = 3
    /\ RowOf(db[TableField(ret.table)], ret.id).level = 3

\* ------------------------------------------------------------------
\* Properties of the context read of a chat turn (specification SpecChat)
\* ------------------------------------------------------------------

\* C25: a chat turn that is answered reads the conversation context, and
\* every episodic memory returned in that context has its access count
\* raised by exactly one by the turn.
C25_ContextReadCountsAccess ==
    [][(ret'.op = "chat" /\ ret'.ok /\ tasks' # tasks)
          => \A i \in DOMAIN get_user_context(db).memories :
                LET r == get_user_context(db).memories[i]
                IN  /\ HasId(db'.mems, r.id)
                    /\ RowOf(db'.mems, r.id).access = r.access + 1]_vars

\* ------------------------------------------------------------------
\* Properties of a stage without rows (specification Spec)
\* ------------------------------------------------------------------

\* the last event of the log l is the event (step, status)
LastEvent(l, step, status) ==
    l # <<>> /\ l[Len(l)] = Event(step, status)

\* C31: a stage that reads zero active rows of its category logs 'skipped',
\* calls the backend not at all and leaves the store as it was; the run goes
\* on from there: the stage is completed with zero counts, the next stage
\* begins, and after the last stage the log ends with 'overall'/'completed'.
C31_EmptyStageSkipped ==
    [][/\ (pc = "begin" /\ ReadRows(db, stage) = <<>> /\ pc' # "error")
            => /\ LastEvent(log', StepName(stage), "skipped")
               /\ pc' = "end"
               /\ ~call'.made
               /\ ioLog' = ioLog
               /\ db' = db
               /\ raised' = NotRaised
       /\ (pc = "end" /\ LastEvent(log, StepName(stage), "skipped"))
            => /\ db' = db
               /\ ~call'.made
               /\ results'.stages[stage] = ZeroCount
               /\ stage < REQUEST
                     => /\ pc' = "begin"
                        /\ stage' = stage + 1
                        /\ LastEvent(log', StepName(stage), "completed")
               /\ stage = REQUEST
                     => /\ pc' = "done"
                        /\ LastEvent(log', "overall", "completed")]_vars

\* C31 witness: a finished run in which the attribute stage was skipped and
\* a later stage worked on its rows; the log ends with 'overall'/'completed'
C31_Witness ==
    /\ pc = "done"
    /\ LastEvent(log, "overall", "completed")
    /\ \E i \in DOMAIN log : log[i] = Event("attribute", "skipped")
    /\ \E i, j \in DOMAIN log :
          /\ i < j
          /\ log[i] = Event("attribute", "skipped")
          /\ log[j] = Event("goal", "processing")

\* ------------------------------------------------------------------
\* Properties of concurrent extraction threads (specification SpecRace)
\* ------------------------------------------------------------------

\* C33: when extraction threads of two chat turns add the same new name at
\* the same time, the table holds one row of that name however their
\* statements interleave, and each call returned the id of that row.
C33_ConcurrentUpsertUnique ==
    /\ \A i, j \in DOMAIN db.attrs :
          db.attrs[i].name = db.attrs[j].name => i = j
    /\ \A i, j \in DOMAIN tasks :
          (tasks[i].pc = "returned" /\ tasks[j].pc = "returned")
             => \A a \in DOMAIN tasks[i].record_ids,
                   b \in DOMAIN tasks[j].record_ids :
                   tasks[i].record_ids[a] = tasks[j].record_ids[b]

\* ------------------------------------------------------------------
\* Properties of a run beside extraction threads (specification SpecLost)
\* ------------------------------------------------------------------

\* C34: a reformat write of the attribute stage is applied only to a record
\* whose value still is the value the reformat was computed from: a value
\* that an extraction thread stored after the stage read the record is not
\* overwritten.
C34_NoLostUpdate ==
    [][(/\ pc = "format"
        /\ stage = ATTRIBUTE
        /\ idx <= Len(rows)
        /\ idx' = idx + 1
        /\ db'.attrs # db.attrs)
          => /\ HasId(db.attrs, rows[idx].id)
             /\ RowOf(db.attrs, rows[idx].id).value = rows[idx].value]_vars

\* ------------------------------------------------------------------
\* Properties of runs that follow one another (specification SpecRuns)
\* ------------------------------------------------------------------

\* the episodic memory r is inactive (soft-deleted)
Inactive(r) == ~r.active

\* C38: no step of an organization run adds a record id to any category,
\* and no step changes an episodic memory that is inactive: its content,
\* level and active flag stay as they are.
C38_RunCreatesNothing ==
    [][/\ IdsOf(db'.attrs) \subseteq IdsOf(db.attrs)
       /\ IdsOf(db'.mems) \subseteq IdsOf(db.mems)
       /\ IdsOf(db'.goals) \subseteq IdsOf(db.goals)
       /\ IdsOf(db'.reqs) \subseteq IdsOf(db.reqs)
       /\ nextId' = nextId
       /\ \A i \in DOMAIN db.mems :
             Inactive(db.mems[i])
                => /\ HasId(db'.mems, db.mems[i].id)
                   /\ RowOf(db'.mems, db.mems[i].id) = db.mems[i]]_vars

\* C38 witness: a run that follows a run which merged two episodes is in its
\* episode stage, has read the one active episode and has rewritten it; the
\* soft-deleted episode is in the table as the merge left it
C38_Witness ==
    /\ stage = EPISODE
    /\ pc = "compress_read"
    /\ executed = <<>>
    /\ cnt.formatted = 1
    /\ Len(db.mems) = 2
    /\ Len(rows) = 1
    /\ \E i \in DOMAIN db.mems :
          Inactive(db.mems[i]) /\ ~HasId(rows, db.mems[i].id)

\* ------------------------------------------------------------------
\* Termination of a run (specification SpecFair)
\* ------------------------------------------------------------------

\* the positions of the log l that hold a terminal event of the run
TerminalEvents(l) ==
    {i \in DOMAIN l : l[i] \in {Event("overall", "completed"),
                                Event("overall", "error")}}

\* C39: a run that has started comes to its return; when it has returned,
\* its log holds exactly one terminal 'overall' event, 'completed' or
\* 'error', as its last entry, 'completed' only after the 'completed' events
\* of all four stages; while it is running the log holds none.
C39_RunTerminates ==
    /\ [](pc = "done"
             => /\ TerminalEvents(log) = {Len(log)}
                /\ LastEvent(log, "overall", "completed")
                      => \A k \in 1..4 : \E i \in DOMAIN log :
                            log[i] = Event(StepName(k), "completed"))
    /\ [](pc \notin {"idle", "done"} => TerminalEvents(log) = {})
    /\ (pc = "begin") ~> (pc = "done")

\* C39 witness: a run has returned after an exception in its episode stage:
\* the log ends with 'overall'/'error' and the summary names the error
C39_Witness ==
    /\ pc = "done"
    /\ LastEvent(log, "overall", "error")
    /\ raised.stage = EPISODE
    /\ results.error # "none"
    /\ \E i \in DOMAIN log : log[i] = Event("attribute", "completed")

\* ------------------------------------------------------------------
\* Properties of _extract_json (specification SpecJson)
\* ------------------------------------------------------------------

\* the end of the balanced span of t that starts at p, 0 if there is none:
\* the first position where the closing characters of t[p]'s kind have
\* caught up with the opening ones
Count(t, p, q, c) == Cardinality({i \in p..q : t[i] = c})

BalancedEnd(t, p) ==
    IF /\ t[p] \in {"{", "["}
       /\ \E q \in (p + 1)..Len(t) :
             Count(t, p, q, t[p]) = Count(t, p, q, Closing(t[p]))
    THEN CHOOSE q \in (p + 1)..Len(t) :
             /\ Count(t, p, q, t[p]) = Count(t, p, q, Closing(t[p]))
             /\ \A j \in (p + 1)..(q - 1) :
                   Count(t, p, j, t[p]) # Count(t, p, j, Closing(t[p]))
    ELSE 0

\* the first balanced {...} or [...] span of t, t itself if it has none
FirstBalancedSpan(t) ==
    IF \E p \in 1..Len(t) : BalancedEnd(t, p) # 0
    THEN LET p == CHOOSE p \in 1..Len(t) :
                      BalancedEnd(t, p) # 0
                         /\ \A j \in 1..(p - 1) : BalancedEnd(t, j) = 0
         IN  SubSeq(t, p, BalancedEnd(t, p))
    ELSE t

\* C32: _extract_json returns the first balanced {...} or [...] span of the
\* content of the first fenced block when the response has a fence, and of
\* the whole response otherwise; of two separate spans only the first.
C32_FirstJsonSpan ==
    ret.op = "_extract_json"
       => ret.json_str = FirstBalancedSpan(FencedContent(ret.text))

\* ------------------------------------------------------------------
\* Properties of the reformat step (specification Spec)
\* ------------------------------------------------------------------

\* the restated text of a reply: trimmed, and for an attribute the trimmed
\* part after the first ':' when there is one
Restated(k, reply) ==
    IF k = ATTRIBUTE /\ HasColon(Strip(reply))
    THEN Strip(AfterColon(Strip(reply)))
    ELSE Strip(reply)

\* C29: an iteration of the reformat loop of any stage writes the record it
\* is at if and only if the restated text of the backend's reply is
\* non-empty and differs from the record's content as read; the write stores
\* that text and changes no other record; otherwise the store is unchanged.
\* The stage's 'formatted' count goes up by one with each such write and with
\* no other step.
C29_ReformatWritesIffChanged ==
    [][/\ (pc = "format" /\ idx <= Min(Len(rows), MAX_ITEMS_PER_STEP))
            => LET r == rows[idx]
                   t == Restated(stage, call'.reply)
                   after == ReadRows(db', stage)
               IN  /\ call'.made
                   /\ (t # <<>> /\ t # Content(stage, r))
                         => /\ HasId(after, r.id)
                            /\ Content(stage, RowOf(after, r.id)) = t
                            /\ \A i \in DOMAIN rows :
                                  i # idx => /\ HasId(after, rows[i].id)
                                             /\ RowOf(after, rows[i].id)
                                                   = RowOf(ReadRows(db, stage),
                                                           rows[i].id)
                            /\ cnt'.formatted = cnt.formatted + 1
                   /\ (t = <<>> \/ t = Content(stage, r))
                         => (db' = db /\ cnt' = cnt)
       /\ cnt'.formatted > cnt.formatted
            => (pc = "format" /\ cnt'.formatted = cnt.formatted + 1)]_vars

\* C29 witness: the attribute stage has stored the part after the colon of
\* a reply "n:b" as the value of the first attribute it reformatted
C29_Witness ==
    /\ stage = ATTRIBUTE
    /\ pc = "format"
    /\ idx = 2
    /\ call.made
    /\ call.reply = <<"n", ":", "b">>
    /\ cnt.formatted = 1
    /\ RowOf(db.attrs, rows[1].id).value = <<"b">>
    /\ rows[1].value # <<"b">>

AgeTarget(d) ==
    IF d >= 365 THEN 3 ELSE IF d >= 90 THEN 2 ELSE IF d >= 30 THEN 1 ELSE 0

C27_GoalsNeverReopened ==
    [][db'.goals # db.goals
          => /\ stage = GOAL
             /\ Len(db'.goals) = Len(db.goals)
             /\ \A i \in DOMAIN db.goals :
                   LET r == db.goals[i] IN
                       /\ HasId(db'.goals, r.id)
                       /\ RowOf(db'.goals, r.id).status # r.status
                             => /\ r.status = "active"
                                /\ RowOf(db'.goals, r.id).status = "cancelled"
                                /\ HasId(rows, r.id)
                       /\ r.status # "active"
                             => RowOf(db'.goals, r.id) = r]_vars

\* C27 witness: the goal stage has cancelled the older goal of a reported
\* pair while a completed goal stands in the store, and has gone on to
\* reformat the goals that are left
C27_Witness ==
    /\ stage = GOAL
    /\ pc = "format"
    /\ executed # <<>>
    /\ cnt.resolved = 1
    /\ \E i, j \in DOMAIN db.goals :
          /\ db.goals[i].status = "completed"
          /\ db.goals[j].status = "cancelled"
          /\ HasId(rows, db.goals[j].id) = FALSE

\* ------------------------------------------------------------------
\* Properties of process_input (specification SpecExtract)
\* ------------------------------------------------------------------

\* C26: the assistant's text given to process_input never becomes a stored
\* record: no episodic memory written by a call holds the assistant text of
\* that call when the user's text of the call is a different one.
C26_AssistantTextNotStored ==
    \A i \in DOMAIN tasks :
        (tasks[i].ai_response # <<>> /\ tasks[i].ai_response # tasks[i].user_input)
           => \A j \in DOMAIN db.mems :
                 db.mems[j].content # tasks[i].ai_response

\* ------------------------------------------------------------------
\* Properties of repeated runs (specification SpecTwice)
\* ------------------------------------------------------------------

\* C16: in a run whose duplicate-detection reply reports no pair (as the
\* second of two runs on an already deduplicated store), no merge is
\* executed: no survivor is rewritten, no record is removed, the merge count
\* stays zero.
C16_NoDuplicatesNoMerges ==
    [][(pc' \in {"merge", "mergedel"} /\ reported' = 0)
          => /\ db' = db
             /\ executed' = <<>>
             /\ cnt'.merged = 0
             /\ pc' # "mergedel"]_vars

\* C16 witness: an earlier run merged a pair and removed request 2; the
\* detection of the run that follows reported nothing for the two requests
\* left and its merge loop has ended without a merge
C16_Witness ==
    /\ stage = REQUEST
    /\ pc = "refetch"
    /\ Len(rows) = 2
    /\ ~HasId(db.reqs, 2) /\ HasId(db.reqs, 1) /\ HasId(db.reqs, 3)
    /\ reported = 0
    /\ executed = <<>>
    /\ cnt.merged = 0

\* ------------------------------------------------------------------
\* Properties of a run that may be killed (specification SpecCrash)
\* ------------------------------------------------------------------

\* the record id of the merge category k is there to be merged (an active
\* episode, a stored request)
Present(d, k, id) ==
    /\ HasId(TableOf(d, k), id)
    /\ RowOf(TableOf(d, k), id).active

\* C36: for every pair the backend can report, the two with equal ids
\* included, the removal that ends an executed merge leaves the survivor id1
\* active and lowers the number of active rows of the category by exactly
\* one: the record removed is another one than the record just written.
C36_MergeKeepsSurvivor ==
    [][pc = "mergedel"
          => /\ Present(db', stage, cur.id1)
             /\ Len(ReadRows(db', stage)) = Len(ReadRows(db, stage)) - 1]_vars

\* C37: the 'merged' count a stage reports is the number of merges the
\* stage committed to the store, whatever the backend replied.
C37_MergedCountIsCommitted ==
    [][(pc = "end" /\ stage \in {EPISODE, REQUEST})
          => results'.stages[stage].merged = Len(executed)]_vars

\* the survivor of the pair cur has been rewritten and the run has not gone
\* further
BetweenCommits ==
    stage \in {EPISODE, REQUEST} /\ call.made /\ cur.id1 # 0

\* C17: a merge is two commits, the survivor's update and then the loser's
\* removal.  A step that removes the loser starts where the survivor already
\* holds the merged text; between the two commits, also when the process is
\* killed there, the survivor holds the merged text and the loser is present.
C17_SurvivorUpdatedBeforeRemoval ==
    [][/\ \A id \in IdsOf(rows) :
             (/\ stage \in {EPISODE, REQUEST}
              /\ Present(db, stage, id)
              /\ ~Present(db', stage, id))
                => /\ pc = "mergedel"
                   /\ id = cur.id2
                   /\ call.made
                   /\ RowOf(TableOf(db, stage), cur.id1).content
                         = Strip(call.reply)
       /\ pc' = "mergedel" => BetweenCommits'
       /\ (pc' \in {"mergedel", "crashed"} /\ BetweenCommits')
             => /\ RowOf(TableOf(db', stage'), cur'.id1).content
                      = Strip(call'.reply)
                /\ Present(db', stage', cur'.id2)]_vars

\* C17 witness: the process was killed between the two commits of the merge
\* of (1, 2): record 1 holds the merged text, record 2 is still present
C17_Witness ==
    /\ pc = "crashed"
    /\ BetweenCommits
    /\ cur.id1 = 1 /\ cur.id2 = 2
    /\ RowOf(TableOf(db, stage), 1).content = Strip(call.reply)
    /\ RowOf(TableOf(db, stage), 1).content # <<"a", "b", "c">>
    /\ Present(db, stage, 2)

\* ------------------------------------------------------------------
\* Properties of concurrent triggers (specification SpecConc)
\* ------------------------------------------------------------------

\* a request thread at position p is inside organize_all
InProgress(p) == p \notin {"idle", "done"}

\* C18: whatever the interleaving of POST /organize requests, at most one
\* organization run is in progress and at most one backend call of the
\* pipeline is outstanding.
C18_SingleRun ==
    /\ ~(InProgress(pc) /\ InProgress(parked.pc))
    /\ ~(Waiting(ThisThread) /\ Waiting(parked))

\* ------------------------------------------------------------------
\* Properties of the processing indicator (specification SpecChatFair)
\* ------------------------------------------------------------------

\* the thread of turn i is inside extract_and_save
TaskRunning(i) ==
    i \in DOMAIN tasks /\ tasks[i].pc \notin {"spawned", "returned", "raised"}

\* C19: an extraction task sets the indicator when it starts and resets it
\* when it ends, by return or by exception; when no task is running the
\* indicator reads false, a running task ends, and a raised indicator is
\* lowered again.
C19_IndicatorResets ==
    /\ [][\A i \in DOMAIN tasks :
             /\ (~TaskRunning(i) /\ TaskRunning(i)') => processing'
             /\ (TaskRunning(i) /\ ~TaskRunning(i)') => ~processing']_vars
    /\ []((\A i \in 1..MaxTurns : ~TaskRunning(i)) => ~processing)
    /\ \A i \in 1..MaxTurns : TaskRunning(i) ~> ~TaskRunning(i)
    /\ processing ~> ~processing

\* C35: whenever the extraction thread of at least one turn is running, the
\* indicator reads true, also when the threads of two turns overlap and one
\* of them ends before the other.
C35_IndicatorWhileAnyRuns ==
    (\E i \in 1..MaxTurns : TaskRunning(i)) => processing

\* C19 witness: the task of a turn ended with an exception, no task is
\* running and the indicator reads false
C19_Witness ==
    /\ \E i \in DOMAIN tasks : tasks[i].pc = "raised"
    /\ \E i \in DOMAIN tasks : tasks[i].pc = "returned"
    /\ \A i \in 1..MaxTurns : ~TaskRunning(i)
    /\ ~processing

\* ------------------------------------------------------------------
\* Properties of the progress observer (specification SpecObserver)
\* ------------------------------------------------------------------

\* C20: during a run the log only grows at its end, with or without an
\* observer; an attached observer has received every event of the log once,
\* in the log's order, each at a time when the event was the last entry of
\* the log; without an observer nothing is delivered.
C20_ObserverFollowsLog ==
    /\ [][pc # "idle" =>
             /\ Len(log') >= Len(log)
             /\ SubSeq(log', 1, Len(log)) = log]_vars
    /\ [](IF callback
          THEN /\ Len(seen) = Len(log)
               /\ \A i \in 1..Len(seen) :
                     seen[i].ev = log[i] /\ seen[i].at = i
          ELSE seen = <<>>)

\* C20 witness: a run with an observer has completed, the observer has
\* received the events of all four stages
C20_Witness ==
    /\ callback
    /\ pc = "done"
    /\ results.error = "none"
    /\ Len(seen) >= 10
    /\ seen[Len(seen)].ev = Event("overall", "completed")
    /\ [i \in 1..Len(seen) |-> seen[i].ev] = log

\* ------------------------------------------------------------------
\* Properties of generate_structured (specification SpecStructured)
\* ------------------------------------------------------------------

\* the text t is one of the texts embedded in the prompt q
Embeds(q, t) == \E i \in DOMAIN q.parts : q.parts[i] = t

C22_InvalidAnswerRaises ==
    /\ gen.response # <<>> /\ GenerationError(gen.response[1]) # "none"
          => /\ gen.pc = "raised"
             /\ gen.error = "ValueError"
             /\ gen.value = <<>>
    /\ gen.pc = "returned"
          => /\ gen.response # <<>>
             /\ gen.response[1].kind = "json"
             /\ model_validate(gen.response[1].data)
             /\ gen.value = <<gen.response[1].data>>
    /\ gen.pc = "raised" => gen.value = <<>>

\* C22 witness: the final answer was JSON with a priority outside 1..10 and
\* the call has raised
C22_Witness ==
    /\ gen.pc = "raised"
    /\ gen.response # <<>>
    /\ gen.response[1].kind = "json"
    /\ ~model_validate(gen.response[1].data)
    /\ gen.error = "ValueError"

\* ------------------------------------------------------------------
\* Properties of the goal table (specification SpecGoals)
\* ------------------------------------------------------------------

\* C23: after any sequence of add_goal and update_goal calls, whatever the
\* priorities passed, every stored goal's priority lies in 1..10.
C23_PriorityClamped ==
    \A i \in DOMAIN db.goals :
        db.goals[i].priority \in PriorityMin..PriorityMax

====
